---- MODULE Spec2Model ----
(***************************************************************************)
(* Model of the study-app backend (src/backend/app.py): the spaced-        *)
(* repetition endpoints and the monthly study-plan generator.              *)
(*                                                                         *)
(* Time is counted in ticks; one day is TicksPerDay ticks.  A DateTime is  *)
(* a number of ticks since 2026-01-01T00:00.  Tables are sequences of rows *)
(* in primary-key order, as SQLite returns them without ORDER BY.          *)
(***************************************************************************)
EXTENDS Integers, Sequences, FiniteSets, TLC

VARIABLES
    now,                \* the wall clock, datetime.utcnow()
    users,              \* table users: set of user ids
    user_rows,          \* table users: the rows, by id
    notes,              \* table notes
    assignments,        \* table assignments
    spaced_repetitions, \* table spaced_repetitions
    study_plans,        \* table study_plans
    response,           \* the last HTTP response
    start_date,         \* the start_date a caller passes to generate_monthly_plan_logic
    frame,              \* the locals of that call when it returned, monthly_plan among them
    tag_table,          \* table tags
    calls,              \* the calls of generate_monthly_plan_logic in progress, each with its locals
    requests            \* the review requests in progress, each with the row its session loaded

vars == <<now, users, user_rows, notes, assignments, spaced_repetitions, study_plans,
          response, start_date, frame,
                           tag_table, calls, requests>>

(***************************************************************************)
(* Bounds of the exploration.                                              *)
(***************************************************************************)
TicksPerDay == 2
MaxTime == 1
MaxReviews == 8
MaxSharedReviews == 2
MaxRecordId == 2
MaxNotes == 2
MaxAssignments == 2
CalendarYears == 3

\* None: a missing row, an absent object or a NULL column of a JSON document
NULL == [null |-> TRUE]
\* None in a column of text
NoText == "<None>"

(***************************************************************************)
(* Helpers: Python and SQL primitives the handlers use.                    *)
(***************************************************************************)
Min2(a, b) == IF a <= b THEN a ELSE b

SeqMax(s) == CHOOSE m \in {s[i] : i \in DOMAIN s} : \A i \in DOMAIN s : s[i] <= m

\* Query.first(): the first matching row in primary-key order, None when absent
First(rows) == IF rows = <<>> THEN NULL ELSE Head(rows)

\* Query.get(id)
GetRow(table, id) == First(SelectSeq(table, LAMBDA r : r.id = id))

\* SQLite INTEGER PRIMARY KEY without AUTOINCREMENT: largest rowid in use + 1
NewId(table) == IF table = <<>> THEN 1 ELSE SeqMax([i \in DOMAIN table |-> table[i].id]) + 1

\* db.session.delete(row); commit
DeleteRow(table, id) == SelectSeq(table, LAMBDA r : r.id # id)

\* a dirty row written back by commit
UpdateRow(table, row) == [i \in DOMAIN table |-> IF table[i].id = row.id THEN row ELSE table[i]]

\* json.dumps / json.loads: a column of type Text holding a JSON document
json_dumps(v) == [json |-> v]
json_loads(t) == t.json

\* datetime.isoformat()
isoformat(t) == [iso |-> t]

\* timedelta(days=n)
timedelta_days(n) == n * TicksPerDay

\* no call of generate_monthly_plan_logic in progress
NoCalls == <<>>

\* no review request in progress
NoRequests == <<>>

(***************************************************************************)
(* Requests: the path and body parameters a client may send.               *)
(***************************************************************************)
UserIdInputs == {1, 2, 3}
NoteIdInputs == {1, 2}
RepIdInputs == 1 .. MaxRecordId + 1
NoNoteId == [absent |-> "note_id"]
SpacedRepBodies == {NoNoteId} \cup {[note_id |-> n] : n \in NoteIdInputs}

\* the clock read again later in the same handler: it may have advanced
LaterClock(t) == {t2 \in {t, t + 1} : t2 <= MaxTime}

\* api.abort(status): the handler ends, nothing is committed
\* the microsoft_id and the email of the users a database starts with
UserRow(id, microsoft_id, email) ==
    [id |-> id, microsoft_id |-> microsoft_id, email |-> email]

\* the rows of the users with these ids (1 .. n)
UserRowsOf(ids) ==
    [i \in 1 .. Cardinality(ids) |-> UserRow(i, <<"ms_1", "ms_2", "ms_3">>[i],
                  <<"one@example.com", "two@example.com", "three@example.com">>[i])]

Abort(op, status) ==
    /\ response' = [op |-> op, status |-> status, body |-> NULL]
    /\ UNCHANGED <<now, users, user_rows, notes, assignments, spaced_repetitions, study_plans,
                   start_date, frame,
                           tag_table, calls, requests>>

(***************************************************************************)
(* Spaced repetition.                                                      *)
(***************************************************************************)
SpacedRepetition_to_dict(sr) ==
    [id |-> sr.id,
     user_id |-> sr.user_id,
     note_id |-> sr.note_id,
     repetition_dates |-> IF sr.repetition_dates = NULL THEN <<>> ELSE json_loads(sr.repetition_dates),
     revision_count |-> sr.revision_count,
     next_review_date |-> isoformat(sr.next_review_date)]

\* SpacedRepetition.query.filter_by(user_id=..., note_id=...).first()
FindSpacedRep(user_id, note_id) ==
    First(SelectSeq(spaced_repetitions, LAMBDA r : r.user_id = user_id /\ r.note_id = note_id))

\* lines 879-885 with the record created as if reviewed once
NewSpacedRep_CountedOnce(user_id, note_id, next_review) ==
    [id |-> NewId(spaced_repetitions),
     user_id |-> user_id,
     note_id |-> note_id,
     repetition_dates |-> json_dumps(<<>>),
     revision_count |-> 1,
     next_review_date |-> next_review]

\* SpacedRepetition(user_id, note_id, '[]', 0, next_review) as db.session.add inserts it
NewSpacedRep(user_id, note_id, next_review) ==
    [id |-> NewId(spaced_repetitions),
     user_id |-> user_id,
     note_id |-> note_id,
     repetition_dates |-> json_dumps(<<>>),
     revision_count |-> 0,
     next_review_date |-> next_review]

\* lines 858-890 without the test for an existing record (lines 869-875)
SpacedRepListPost_NoDuplicateTest(user_id, data) ==
    IF user_id \notin users THEN Abort("add_to_spaced_repetition", 404)
    ELSE IF data = NoNoteId THEN Abort("add_to_spaced_repetition", 400)
    ELSE IF GetRow(notes, data.note_id) = NULL THEN Abort("add_to_spaced_repetition", 404)
    ELSE
        LET next_review == now + timedelta_days(1)
            spaced_rep == NewSpacedRep(user_id, data.note_id, next_review)
        IN  /\ spaced_rep.id <= MaxRecordId
            /\ spaced_repetitions' = Append(spaced_repetitions, spaced_rep)
            /\ response' = [op |-> "add_to_spaced_repetition", status |-> 201,
                            body |-> SpacedRepetition_to_dict(spaced_rep)]
            /\ UNCHANGED <<now, users, user_rows, notes, assignments, study_plans, start_date, frame,
                           tag_table, calls, requests>>

\* POST /api/spaced-repetitions/user/<user_id>
SpacedRepListPost(user_id, data) ==
    IF user_id \notin users THEN Abort("add_to_spaced_repetition", 404)
    ELSE IF data = NoNoteId THEN Abort("add_to_spaced_repetition", 400)
    ELSE IF GetRow(notes, data.note_id) = NULL THEN Abort("add_to_spaced_repetition", 404)
    ELSE IF FindSpacedRep(user_id, data.note_id) # NULL THEN Abort("add_to_spaced_repetition", 409)
    ELSE
        LET next_review == now + timedelta_days(1)
            spaced_rep == NewSpacedRep(user_id, data.note_id, next_review)
        IN  /\ spaced_rep.id <= MaxRecordId
            /\ spaced_repetitions' = Append(spaced_repetitions, spaced_rep)
            /\ response' = [op |-> "add_to_spaced_repetition", status |-> 201,
                            body |-> SpacedRepetition_to_dict(spaced_rep)]
            /\ UNCHANGED <<now, users, user_rows, notes, assignments, study_plans, start_date, frame,
                           tag_table, calls, requests>>

\* list[i] of Python: a negative i counts from the end of the list
list_getitem(list, i) == IF i >= 0 THEN list[i + 1] ELSE list[Len(list) + i + 1]

\* list[i] raises IndexError
IndexError(list, i) == i >= Len(list) \/ i < 0 - Len(list)

\* the table of lines 928 and 996 with a leading interval of no day
intervals_FromZero == <<0, 1, 3, 7, 14, 30, 60>>

\* lines 928 and 996
intervals == <<1, 3, 7, 14, 30, 60, 90>>

\* lines 924-931: the update RecordNoteReview.post applies to the row; t1 and t2
\* are the clock at the two utcnow() calls
\* the update of lines 924-931 without the append of lines 926-927
RecordNoteReviewUpdate_NoAppend(spaced_rep, t1, t2) ==
    LET revision_count == spaced_rep.revision_count + 1
        interval_index == Min2(revision_count - 1, Len(intervals) - 1)
        next_interval == intervals[interval_index + 1]
    IN  [spaced_rep EXCEPT
            !.revision_count = revision_count,
            !.next_review_date = t2 + timedelta_days(next_interval)]

\* the update of lines 924-931 with interval_index = min(revision_count, len - 1)
RecordNoteReviewUpdate_IndexOffByOne(spaced_rep, t1, t2) ==
    LET revision_count == spaced_rep.revision_count + 1
        rep_dates == IF spaced_rep.repetition_dates = NULL THEN <<>>
                     ELSE json_loads(spaced_rep.repetition_dates)
        interval_index == Min2(revision_count, Len(intervals) - 1)
        next_interval == intervals[interval_index + 1]
    IN  [spaced_rep EXCEPT
            !.revision_count = revision_count,
            !.repetition_dates = json_dumps(Append(rep_dates, isoformat(t1))),
            !.next_review_date = t2 + timedelta_days(next_interval)]

\* lines 929-930 and 997-998 raise IndexError on this row: nothing is committed
ReviewRaises(spaced_rep) ==
    IndexError(intervals, Min2(spaced_rep.revision_count + 1 - 1, Len(intervals) - 1))

RecordNoteReviewUpdate(spaced_rep, t1, t2) ==
    LET revision_count == spaced_rep.revision_count + 1
        rep_dates == IF spaced_rep.repetition_dates = NULL THEN <<>>
                     ELSE json_loads(spaced_rep.repetition_dates)
        interval_index == Min2(revision_count - 1, Len(intervals) - 1)
        next_interval == list_getitem(intervals, interval_index)
    IN  [spaced_rep EXCEPT
            !.revision_count = revision_count,
            !.repetition_dates = json_dumps(Append(rep_dates, isoformat(t1))),
            !.next_review_date = t2 + timedelta_days(next_interval)]

\* POST /api/spaced-repetitions/user/<user_id>/record-review
RecordNoteReviewPost(user_id, data, cap) ==
    IF user_id \notin users THEN Abort("record_note_review", 404)
    ELSE IF data = NoNoteId THEN Abort("record_note_review", 400)
    ELSE IF GetRow(notes, data.note_id) = NULL THEN Abort("record_note_review", 404)
    ELSE IF FindSpacedRep(user_id, data.note_id) # NULL
            /\ ReviewRaises(FindSpacedRep(user_id, data.note_id))
        THEN Abort("record_note_review", 500)
    ELSE
        LET found == FindSpacedRep(user_id, data.note_id)
            spaced_rep == IF found = NULL
                          THEN NewSpacedRep(user_id, data.note_id, now + timedelta_days(1))
                          ELSE found
            table == IF found = NULL THEN Append(spaced_repetitions, spaced_rep)
                     ELSE spaced_repetitions
        IN  /\ spaced_rep.id <= MaxRecordId
            /\ spaced_rep.revision_count < cap
            /\ \E t2 \in LaterClock(now) :
                LET updated == RecordNoteReviewUpdate(spaced_rep, now, t2)
                IN  /\ spaced_repetitions' = UpdateRow(table, updated)
                    /\ response' = [op |-> "record_note_review", status |-> 200,
                                    body |-> SpacedRepetition_to_dict(updated)]
                    /\ now' = t2
            /\ UNCHANGED <<users, user_rows, notes, assignments, study_plans, start_date, frame,
                           tag_table, calls, requests>>

\* DELETE /api/spaced-repetitions/user/<user_id>/note/<note_id>
SpacedRepByNoteDelete(user_id, note_id) ==
    LET spaced_rep == FindSpacedRep(user_id, note_id)
    IN  /\ spaced_repetitions' = IF spaced_rep # NULL
                                 THEN DeleteRow(spaced_repetitions, spaced_rep.id)
                                 ELSE spaced_repetitions
        /\ response' = [op |-> "remove_note_from_spaced_repetition", status |-> 204, body |-> NULL]
        /\ UNCHANGED <<now, users, user_rows, notes, assignments, study_plans, start_date, frame,
                           tag_table, calls, requests>>

\* the update of lines 990-1000 with the new date put in front of the history
ReviewSpacedRepUpdate_Prepend(spaced_rep, t1, t2) ==
    LET revision_count == spaced_rep.revision_count + 1
        rep_dates == IF spaced_rep.repetition_dates = NULL THEN <<>>
                     ELSE json_loads(spaced_rep.repetition_dates)
        interval_index == Min2(revision_count - 1, Len(intervals) - 1)
        next_interval == intervals[interval_index + 1]
    IN  [spaced_rep EXCEPT
            !.revision_count = revision_count,
            !.repetition_dates = json_dumps(<<isoformat(t1)>> \o rep_dates),
            !.next_review_date = t2 + timedelta_days(next_interval)]

\* the update of lines 990-1000 with interval_index = (revision_count - 1) % len
ReviewSpacedRepUpdate_WrapAround(spaced_rep, t1, t2) ==
    LET revision_count == spaced_rep.revision_count + 1
        rep_dates == IF spaced_rep.repetition_dates = NULL THEN <<>>
                     ELSE json_loads(spaced_rep.repetition_dates)
        interval_index == (revision_count - 1) % Len(intervals)
        next_interval == intervals[interval_index + 1]
    IN  [spaced_rep EXCEPT
            !.revision_count = revision_count,
            !.repetition_dates = json_dumps(Append(rep_dates, isoformat(t1))),
            !.next_review_date = t2 + timedelta_days(next_interval)]

\* lines 990-1000: the update ReviewSpacedRep.post applies to the row
ReviewSpacedRepUpdate(spaced_rep, t1, t2) ==
    LET revision_count == spaced_rep.revision_count + 1
        rep_dates == IF spaced_rep.repetition_dates = NULL THEN <<>>
                     ELSE json_loads(spaced_rep.repetition_dates)
        interval_index == Min2(revision_count - 1, Len(intervals) - 1)
        next_interval == list_getitem(intervals, interval_index)
    IN  [spaced_rep EXCEPT
            !.revision_count = revision_count,
            !.repetition_dates = json_dumps(Append(rep_dates, isoformat(t1))),
            !.next_review_date = t2 + timedelta_days(next_interval)]

\* POST /api/spaced-repetitions/<rep_id>/review
ReviewSpacedRepPost(rep_id, cap) ==
    LET spaced_rep == GetRow(spaced_repetitions, rep_id)
    IN  IF spaced_rep = NULL THEN Abort("mark_reviewed", 404)
        ELSE IF ReviewRaises(spaced_rep) THEN Abort("mark_reviewed", 500)
        ELSE
            /\ spaced_rep.revision_count < cap
            /\ \E t2 \in LaterClock(now) :
                LET updated == ReviewSpacedRepUpdate(spaced_rep, now, t2)
                IN  /\ spaced_repetitions' = UpdateRow(spaced_repetitions, updated)
                    /\ response' = [op |-> "mark_reviewed", status |-> 200,
                                    body |-> SpacedRepetition_to_dict(updated)]
                    /\ now' = t2
            /\ UNCHANGED <<users, user_rows, notes, assignments, study_plans, start_date, frame,
                           tag_table, calls, requests>>

\* time passes between two requests
Tick ==
    /\ now < MaxTime
    /\ now' = now + 1
    /\ UNCHANGED <<users, user_rows, notes, assignments, spaced_repetitions, study_plans,
                   response, start_date, frame,
                           tag_table, calls, requests>>

(***************************************************************************)
(* Calendar: strftime('%m/%d/%Y') and strptime('%Y-%m-%d') on DateTimes     *)
(* counted from 2026-01-01T00:00.                                          *)
(***************************************************************************)
IsLeap(y) == y % 4 = 0 /\ (y % 100 # 0 \/ y % 400 = 0)

DaysInMonth(y, m) ==
    IF m = 2 THEN (IF IsLeap(y) THEN 29 ELSE 28)
    ELSE IF m \in {4, 6, 9, 11} THEN 30 ELSE 31

\* the i-th month counted from January 2026
YearOfMonth(i) == 2026 + (i - 1) \div 12
MonthOfMonth(i) == ((i - 1) % 12) + 1

RECURSIVE MonthStartsUpTo(_)
\* for the first n months, the number of days from the epoch to the first of the month
MonthStartsUpTo(n) ==
    IF n = 0 THEN <<>>
    ELSE IF n = 1 THEN <<0>>
    ELSE LET prev == MonthStartsUpTo(n - 1)
         IN  Append(prev, prev[n - 1] + DaysInMonth(YearOfMonth(n - 1), MonthOfMonth(n - 1)))

MonthStarts == MonthStartsUpTo(12 * CalendarYears + 1)

\* the calendar date of the day d days after the epoch
CivilFromDays(d) ==
    LET i == CHOOSE k \in 1 .. 12 * CalendarYears : MonthStarts[k] <= d /\ d < MonthStarts[k + 1]
    IN  [year |-> YearOfMonth(i), month |-> MonthOfMonth(i), day |-> d - MonthStarts[i] + 1]

\* datetime.strftime('%m/%d/%Y'): the time of day is dropped
strftime_mdY(t) ==
    LET c == CivilFromDays(t \div TicksPerDay)
    IN  <<c.month, c.day, c.year>>

\* datetime.strftime('%Y-%m-%d')
strftime_Ymd(t) ==
    LET c == CivilFromDays(t \div TicksPerDay)
    IN  <<c.year, c.month, c.day>>

\* datetime.strptime(s, '%Y-%m-%d'): midnight of that date
strptime_Ymd(s) == (MonthStarts[(s[1] - 2026) * 12 + s[2]] + s[3] - 1) * TicksPerDay

\* timedelta.days of (a - b): whole days, rounded down
timedelta_in_days(a, b) == (a - b) \div TicksPerDay

(***************************************************************************)
(* The monthly study-plan generator.                                       *)
(***************************************************************************)
PlanDays == 30
WindowDays == 30
FarAway == 30

time_slots == <<"09:00", "11:00", "14:00", "16:00", "19:00">>

\* json.loads(x.tags) if x.tags else []
TagsOf(row) == IF row.tags = NULL THEN <<>> ELSE json_loads(row.tags)

SeqMin(s, default) ==
    IF s = <<>> THEN default
    ELSE CHOOSE m \in {s[i] : i \in DOMAIN s} : \A i \in DOMAIN s : m <= s[i]

\* lines 1709-1712 with the end of the window excluded
upcoming_assignments_of_OpenEnd(sd, assignment_list) ==
    LET end_date == sd + timedelta_days(WindowDays)
    IN  SelectSeq(assignment_list, LAMBDA a : sd <= a.due_date /\ a.due_date < end_date)

\* lines 1709-1712
upcoming_assignments_of(sd, assignment_list) ==
    LET end_date == sd + timedelta_days(WindowDays)
    IN  SelectSeq(assignment_list, LAMBDA a : sd <= a.due_date /\ a.due_date <= end_date)

\* lines 1714-1717
priority_tags_of(upcoming) ==
    UNION {{TagsOf(upcoming[i])[j] : j \in DOMAIN TagsOf(upcoming[i])} : i \in DOMAIN upcoming}

\* line 1724
HasPriorityTag(note, priority_tags) ==
    \E j \in DOMAIN TagsOf(note) : TagsOf(note)[j] \in priority_tags

\* lines 1719-1727
priority_notes_of(note_list, priority_tags) ==
    SelectSeq(note_list, LAMBDA n : HasPriorityTag(n, priority_tags))

regular_notes_of(note_list, priority_tags) ==
    SelectSeq(note_list, LAMBDA n : ~HasPriorityTag(n, priority_tags))

\* lines 1740-1743 with the distance taken without its sign
days_to_nearest_assignment_of_Absolute(upcoming, current_date) ==
    SeqMin([i \in DOMAIN upcoming |->
                LET d == timedelta_in_days(upcoming[i].due_date, current_date)
                IN  IF d < 0 THEN -d ELSE d], FarAway)

\* lines 1740-1743 counting only the assignments not yet due on current_date
days_to_nearest_assignment_of_NotYetDue(upcoming, current_date) ==
    LET ahead == SelectSeq(upcoming, LAMBDA a : a.due_date >= current_date)
    IN  SeqMin([i \in DOMAIN ahead |-> timedelta_in_days(ahead[i].due_date, current_date)], FarAway)

\* lines 1740-1743
days_to_nearest_assignment_of(upcoming, current_date) ==
    SeqMin([i \in DOMAIN upcoming |-> timedelta_in_days(upcoming[i].due_date, current_date)], FarAway)

\* lines 1745-1752 with the four counts in the opposite order
priority_slots_of_Reversed(days_to_nearest_assignment) ==
    IF days_to_nearest_assignment <= 7 THEN 1
    ELSE IF days_to_nearest_assignment <= 14 THEN 2
    ELSE IF days_to_nearest_assignment <= 21 THEN 3
    ELSE 4

\* lines 1745-1752
priority_slots_of(days_to_nearest_assignment) ==
    IF days_to_nearest_assignment <= 7 THEN 4
    ELSE IF days_to_nearest_assignment <= 14 THEN 3
    ELSE IF days_to_nearest_assignment <= 21 THEN 2
    ELSE 1

\* lines 1768-1774 with the subject copied as it is
PlanEntry_NoPlaceholder(note) ==
    [subject |-> <<note.subject>>,
     tags |-> TagsOf(note),
     associated_notes |-> <<note.id>>]

\* lines 1768-1774
PlanEntry(note) ==
    [subject |-> <<IF note.subject \in {NoText, ""} THEN "Study Session" ELSE note.subject>>,
     tags |-> TagsOf(note),
     associated_notes |-> <<note.id>>]

\* d[k] = v on a Python dict
DictSet(d, k, v) == (k :> v) @@ d

\* {}
EmptyDict == <<>>

\* lines 1755-1766 with slot_index <= priority_slots
slot_choice_OneMore(slot_index, priority_slots, priority_notes, regular_notes) ==
    IF slot_index <= priority_slots /\ priority_notes # <<>> THEN "priority"
    ELSE IF regular_notes # <<>> THEN "regular"
    ELSE IF priority_notes # <<>> THEN "priority"
    ELSE "continue"

\* lines 1755-1766 without the fall-back to a priority note of lines 1762-1764
slot_choice_NoFallback(slot_index, priority_slots, priority_notes, regular_notes) ==
    IF slot_index < priority_slots /\ priority_notes # <<>> THEN "priority"
    ELSE IF regular_notes # <<>> THEN "regular"
    ELSE "continue"

\* lines 1755-1766: the list the slot draws from
slot_choice(slot_index, priority_slots, priority_notes, regular_notes) ==
    IF slot_index < priority_slots /\ priority_notes # <<>> THEN "priority"
    ELSE IF regular_notes # <<>> THEN "regular"
    ELSE IF priority_notes # <<>> THEN "priority"
    ELSE "continue"

\* lines 1755-1774 with the priority cursor left alone by the draw of lines
\* 1762-1764 (line 1764 left out)
SlotBody_FallbackKeepsCursor(slot_index, priority_slots, priority_notes, regular_notes, st) ==
    LET choice == slot_choice(slot_index, priority_slots, priority_notes, regular_notes)
        note == IF choice = "priority"
                THEN priority_notes[(st.priority_index % Len(priority_notes)) + 1]
                ELSE regular_notes[(st.regular_index % Len(regular_notes)) + 1]
    IN  IF choice = "continue" THEN st
        ELSE [day |-> DictSet(st.day, time_slots[slot_index + 1], PlanEntry(note)),
              priority_index |-> IF choice = "priority" /\ slot_index < priority_slots
                                 THEN st.priority_index + 1
                                 ELSE st.priority_index,
              regular_index |-> IF choice = "regular" THEN st.regular_index + 1
                                ELSE st.regular_index]

\* lines 1755-1774 with the cursors never advanced (lines 1757, 1760, 1764 left out)
SlotBody_CursorStuck(slot_index, priority_slots, priority_notes, regular_notes, st) ==
    LET choice == slot_choice(slot_index, priority_slots, priority_notes, regular_notes)
        note == IF choice = "priority"
                THEN priority_notes[(st.priority_index % Len(priority_notes)) + 1]
                ELSE regular_notes[(st.regular_index % Len(regular_notes)) + 1]
    IN  IF choice = "continue" THEN st
        ELSE [day |-> DictSet(st.day, time_slots[slot_index + 1], PlanEntry(note)),
              priority_index |-> st.priority_index,
              regular_index |-> st.regular_index]

\* lines 1755-1774: one pass of the loop over the slots; st holds the day's
\* dict and the two cursors
SlotBody(slot_index, priority_slots, priority_notes, regular_notes, st) ==
    LET choice == slot_choice(slot_index, priority_slots, priority_notes, regular_notes)
        note == IF choice = "priority"
                THEN priority_notes[(st.priority_index % Len(priority_notes)) + 1]
                ELSE regular_notes[(st.regular_index % Len(regular_notes)) + 1]
    IN  IF choice = "continue" THEN st
        ELSE [day |-> DictSet(st.day, time_slots[slot_index + 1], PlanEntry(note)),
              priority_index |-> IF choice = "priority" THEN st.priority_index + 1
                                 ELSE st.priority_index,
              regular_index |-> IF choice = "regular" THEN st.regular_index + 1
                                ELSE st.regular_index]

RECURSIVE SlotLoop(_, _, _, _, _)
\* line 1754: for slot_index, time_slot in enumerate(time_slots), from slot_index on
SlotLoop(slot_index, priority_slots, priority_notes, regular_notes, st) ==
    IF slot_index >= Len(time_slots) THEN st
    ELSE SlotLoop(slot_index + 1, priority_slots, priority_notes, regular_notes,
                  SlotBody(slot_index, priority_slots, priority_notes, regular_notes, st))

\* lines 1735-1774 with priority_index = 0 and regular_index = 0 (lines
\* 1731-1732) moved into the loop over the days
DayBody_CursorsReset(day_offset, sd, upcoming, priority_notes, regular_notes, fr) ==
    LET current_date == sd + timedelta_days(day_offset)
        date_str == strftime_mdY(current_date)
        days_to_nearest_assignment == days_to_nearest_assignment_of(upcoming, current_date)
        priority_slots == priority_slots_of(days_to_nearest_assignment)
        st == SlotLoop(0, priority_slots, priority_notes, regular_notes,
                       [day |-> EmptyDict, priority_index |-> 0, regular_index |-> 0])
    IN  [monthly_plan |-> DictSet(fr.monthly_plan, date_str, st.day),
         priority_index |-> st.priority_index,
         regular_index |-> st.regular_index,
         priority_slots |-> Append(fr.priority_slots, priority_slots)]

\* lines 1735-1774 with the day's key set only when a slot of the day is filled
DayBody_SkipEmptyDays(day_offset, sd, upcoming, priority_notes, regular_notes, fr) ==
    LET current_date == sd + timedelta_days(day_offset)
        date_str == strftime_mdY(current_date)
        days_to_nearest_assignment == days_to_nearest_assignment_of(upcoming, current_date)
        priority_slots == priority_slots_of(days_to_nearest_assignment)
        st == SlotLoop(0, priority_slots, priority_notes, regular_notes,
                       [day |-> EmptyDict,
                        priority_index |-> fr.priority_index,
                        regular_index |-> fr.regular_index])
    IN  [monthly_plan |-> IF st.day = EmptyDict THEN fr.monthly_plan
                          ELSE DictSet(fr.monthly_plan, date_str, st.day),
         priority_index |-> st.priority_index,
         regular_index |-> st.regular_index,
         priority_slots |-> Append(fr.priority_slots, priority_slots)]

\* lines 1735-1774: one pass of the loop over the days; fr holds monthly_plan,
\* the two cursors and, per day already done, the value priority_slots had
DayBody(day_offset, sd, upcoming, priority_notes, regular_notes, fr) ==
    LET current_date == sd + timedelta_days(day_offset)
        date_str == strftime_mdY(current_date)
        days_to_nearest_assignment == days_to_nearest_assignment_of(upcoming, current_date)
        priority_slots == priority_slots_of(days_to_nearest_assignment)
        st == SlotLoop(0, priority_slots, priority_notes, regular_notes,
                       [day |-> EmptyDict,
                        priority_index |-> fr.priority_index,
                        regular_index |-> fr.regular_index])
    IN  [monthly_plan |-> DictSet(fr.monthly_plan, date_str, st.day),
         priority_index |-> st.priority_index,
         regular_index |-> st.regular_index,
         priority_slots |-> Append(fr.priority_slots, priority_slots)]

RECURSIVE DayLoop(_, _, _, _, _, _)
\* line 1734: for day_offset in range(30), from day_offset on.  The test on
\* done makes TLC finish a day before it starts the next, as the loop does.
DayLoop(day_offset, sd, upcoming, priority_notes, regular_notes, fr) ==
    IF day_offset >= PlanDays THEN fr
    ELSE
        LET done == DayBody(day_offset, sd, upcoming, priority_notes, regular_notes, fr)
        IN  IF Len(done.priority_slots) = day_offset + 1
            THEN DayLoop(day_offset + 1, sd, upcoming, priority_notes, regular_notes, done)
            ELSE done

\* the locals of generate_monthly_plan_logic when it returns
GenerateFrame(sd, note_list, assignment_list) ==
    LET upcoming == upcoming_assignments_of(sd, assignment_list)
        priority_tags == priority_tags_of(upcoming)
        priority_notes == priority_notes_of(note_list, priority_tags)
        regular_notes == regular_notes_of(note_list, priority_tags)
        fr == DayLoop(0, sd, upcoming, priority_notes, regular_notes,
                      [monthly_plan |-> EmptyDict, priority_index |-> 0,
                       regular_index |-> 0, priority_slots |-> <<>>])
    IN  [monthly_plan |-> fr.monthly_plan,
         upcoming_assignments |-> upcoming,
         priority_notes |-> priority_notes,
         regular_notes |-> regular_notes,
         priority_index |-> fr.priority_index,
         regular_index |-> fr.regular_index,
         priority_slots |-> fr.priority_slots]

\* generate_monthly_plan_logic(start_date, notes, assignments)
generate_monthly_plan_logic(sd, note_list, assignment_list) ==
    GenerateFrame(sd, note_list, assignment_list).monthly_plan

(***************************************************************************)
(* Study plans.                                                            *)
(***************************************************************************)
StudyPlan_to_dict(sp) ==
    [plan_id |-> sp.plan_id,
     user_id |-> sp.user_id,
     study_plan |-> IF sp.study_plan = NULL THEN EmptyDict ELSE json_loads(sp.study_plan)]

NoStartDate == [absent |-> "start_date"]
BadStartDate == [start_date |-> <<0, 0, 0>>]

\* lines 805-837 with the new plan always added (the branch of lines 826-828
\* never taken)
GenerateStudyPlanPost_AlwaysAdded(user_id, data) ==
    IF user_id \notin users THEN Abort("generate_study_plan", 404)
    ELSE IF data = BadStartDate THEN Abort("generate_study_plan", 500)
    ELSE
        LET start_date_str == IF data = NoStartDate THEN strftime_Ymd(now) ELSE data.start_date
            sd == strptime_Ymd(start_date_str)
            note_list == SelectSeq(notes, LAMBDA n : n.user_id = user_id)
            assignment_list ==
                SelectSeq(assignments, LAMBDA a : a.user_id = user_id /\ a.due_date >= sd)
            monthly_plan == generate_monthly_plan_logic(sd, note_list, assignment_list)
            existing_plan ==
                [id |-> NewId(study_plans), plan_id |-> NewId(study_plans),
                 user_id |-> user_id, study_plan |-> json_dumps(monthly_plan)]
        IN  /\ study_plans' = Append(study_plans, existing_plan)
            /\ response' = [op |-> "generate_study_plan", status |-> 200,
                            body |-> StudyPlan_to_dict(existing_plan)]
            /\ UNCHANGED <<now, users, user_rows, notes, assignments, spaced_repetitions,
                           start_date, frame,
                           tag_table, calls, requests>>

\* POST /api/study-plans/user/<user_id>/generate
GenerateStudyPlanPost(user_id, data) ==
    IF user_id \notin users THEN Abort("generate_study_plan", 404)
    ELSE IF data = BadStartDate THEN Abort("generate_study_plan", 500)
    ELSE
        LET start_date_str == IF data = NoStartDate THEN strftime_Ymd(now) ELSE data.start_date
            sd == strptime_Ymd(start_date_str)
            note_list == SelectSeq(notes, LAMBDA n : n.user_id = user_id)
            assignment_list ==
                SelectSeq(assignments, LAMBDA a : a.user_id = user_id /\ a.due_date >= sd)
            monthly_plan == generate_monthly_plan_logic(sd, note_list, assignment_list)
            found == First(SelectSeq(study_plans, LAMBDA r : r.user_id = user_id))
            existing_plan ==
                IF found # NULL THEN [found EXCEPT !.study_plan = json_dumps(monthly_plan)]
                ELSE [id |-> NewId(study_plans), plan_id |-> NewId(study_plans),
                      user_id |-> user_id, study_plan |-> json_dumps(monthly_plan)]
        IN  /\ study_plans' = IF found # NULL THEN UpdateRow(study_plans, existing_plan)
                              ELSE Append(study_plans, existing_plan)
            /\ response' = [op |-> "generate_study_plan", status |-> 200,
                            body |-> StudyPlan_to_dict(existing_plan)]
            /\ UNCHANGED <<now, users, user_rows, notes, assignments, spaced_repetitions,
                           start_date, frame,
                           tag_table, calls, requests>>

NoStudyPlan == [absent |-> "study_plan"]

\* POST /api/study-plans/user/<user_id>
StudyPlanResourcePost(user_id, data) ==
    IF user_id \notin users THEN Abort("create_or_update_study_plan", 404)
    ELSE IF data = NoStudyPlan THEN Abort("create_or_update_study_plan", 400)
    ELSE
        LET existing_plan == First(SelectSeq(study_plans, LAMBDA r : r.user_id = user_id))
            updated == [existing_plan EXCEPT !.study_plan = json_dumps(data.study_plan)]
            study_plan == [id |-> NewId(study_plans), plan_id |-> NewId(study_plans),
                           user_id |-> user_id, study_plan |-> json_dumps(data.study_plan)]
        IN  /\ study_plans' = IF existing_plan # NULL THEN UpdateRow(study_plans, updated)
                              ELSE Append(study_plans, study_plan)
            /\ response' = IF existing_plan # NULL
                           THEN [op |-> "create_or_update_study_plan", status |-> 200,
                                 body |-> StudyPlan_to_dict(updated)]
                           ELSE [op |-> "create_or_update_study_plan", status |-> 201,
                                 body |-> StudyPlan_to_dict(study_plan)]
            /\ UNCHANGED <<now, users, user_rows, notes, assignments, spaced_repetitions,
                           start_date, frame, tag_table, calls, requests>>

\* a direct call generate_monthly_plan_logic(start_date, notes, assignments) with
\* every note and every assignment of the tables
GeneratePlan ==
    /\ frame' = GenerateFrame(start_date, notes, assignments)
    /\ UNCHANGED <<now, users, user_rows, notes, assignments, spaced_repetitions, study_plans,
                   response, start_date, tag_table, calls, requests>>

(***************************************************************************)
(* Specifications.                                                         *)
(***************************************************************************)
NoResponse == [op |-> "none", status |-> 0, body |-> NULL]

\* a row of the table notes; the content, a JSON text, is the same in every
\* row the specifications below start from
NoteRow(id, user_id, subject, tags) ==
    [id |-> id, user_id |-> user_id, content |-> json_dumps("a"),
     subject |-> subject, tags |-> tags]

\* a database of two users, the first with one note, nothing tracked yet
Init ==
    /\ now = 0
    /\ users = {1, 2}
    /\ user_rows = UserRowsOf({1, 2})
    /\ notes = <<NoteRow(1, 1, "Math", json_dumps(<<>>))>>
    /\ assignments = <<>>
    /\ spaced_repetitions = <<>>
    /\ study_plans = <<>>
    /\ response = NoResponse
    /\ start_date = 0
    /\ frame = NULL
    /\ tag_table = <<>>
    /\ calls = NoCalls
    /\ requests = NoRequests

AddToSpacedRepetition == \E u \in UserIdInputs, d \in SpacedRepBodies : SpacedRepListPost(u, d)
RemoveFromSpacedRepetition == \E u \in UserIdInputs, n \in NoteIdInputs : SpacedRepByNoteDelete(u, n)
RecordReview == \E u \in UserIdInputs, d \in SpacedRepBodies : RecordNoteReviewPost(u, d, MaxSharedReviews)
MarkReviewed == \E r \in RepIdInputs : ReviewSpacedRepPost(r, MaxSharedReviews)

Next ==
    \/ Tick
    \/ AddToSpacedRepetition
    \/ RecordReview
    \/ RemoveFromSpacedRepetition
    \/ MarkReviewed

Spec == Init /\ [][Next]_vars

\* one user with one note: a single record, followed through a long history
ReviewInit ==
    /\ now = 0
    /\ users = {1}
    /\ user_rows = UserRowsOf({1})
    /\ notes = <<NoteRow(1, 1, "Math", json_dumps(<<>>))>>
    /\ assignments = <<>>
    /\ spaced_repetitions = <<>>
    /\ study_plans = <<>>
    /\ response = NoResponse
    /\ start_date = 0
    /\ frame = NULL
    /\ tag_table = <<>>
    /\ calls = NoCalls
    /\ requests = NoRequests

LongRecordReview == \E u \in UserIdInputs, d \in SpacedRepBodies : RecordNoteReviewPost(u, d, MaxReviews)
LongMarkReviewed == \E r \in RepIdInputs : ReviewSpacedRepPost(r, MaxReviews)

ReviewNext ==
    \/ Tick
    \/ AddToSpacedRepetition
    \/ LongRecordReview
    \/ RemoveFromSpacedRepetition
    \/ LongMarkReviewed

ReviewSpec == ReviewInit /\ [][ReviewNext]_vars

(***************************************************************************)
(* The generator on drawn inputs.                                          *)
(***************************************************************************)
AssignmentRow(id, user_id, due_date, tags) ==
    [id |-> id, user_id |-> user_id, due_date |-> due_date, tags |-> tags]

\* 2026-02-01T00:00, 2026-02-01 later in the day, 2027-12-15T00:00 (the plan
\* runs over the end of the year)
StartDates ==
    {strptime_Ymd(<<2026, 2, 1>>), strptime_Ymd(<<2026, 2, 1>>) + 1, strptime_Ymd(<<2027, 12, 15>>)}

NoteShapes ==
    {[user_id |-> 1, subject |-> "Math", tags |-> json_dumps(<<"OOP">>)],
     [user_id |-> 1, subject |-> "", tags |-> json_dumps(<<>>)],
     [user_id |-> 1, subject |-> NoText, tags |-> NULL],
     [user_id |-> 2, subject |-> "Physics", tags |-> json_dumps(<<"Java", "OOP">>)]}

\* due dates relative to the start date: just before it, on it, 4 days later,
\* on the last instant of the window and just after it
AssignmentShapes ==
    {[user_id |-> 1, due |-> -1, tags |-> json_dumps(<<"OOP">>)],
     [user_id |-> 1, due |-> 0, tags |-> json_dumps(<<"Java">>)],
     [user_id |-> 1, due |-> timedelta_days(4), tags |-> json_dumps(<<"OOP">>)],
     [user_id |-> 1, due |-> timedelta_days(WindowDays), tags |-> json_dumps(<<"OOP">>)],
     [user_id |-> 2, due |-> timedelta_days(WindowDays) + 1, tags |-> json_dumps(<<"Java">>)],
     [user_id |-> 1, due |-> timedelta_days(18) + 1, tags |-> NULL]}

SeqsUpTo(S, n) == UNION {[1 .. k -> S] : k \in 0 .. n}

\* note lists explored together with every assignment list
FixedNoteLists ==
    {<<>>,
     <<[user_id |-> 1, subject |-> "", tags |-> json_dumps(<<>>)],
       [user_id |-> 1, subject |-> "Math", tags |-> json_dumps(<<"OOP">>)]>>}

PlanInit ==
    /\ start_date \in StartDates
    /\ now = start_date
    /\ users = {}
    /\ user_rows = UserRowsOf({})
    /\ \E ns \in SeqsUpTo(NoteShapes, MaxNotes), as \in SeqsUpTo(AssignmentShapes, MaxAssignments) :
        /\ Len(as) <= 1 \/ ns \in FixedNoteLists
        /\ notes = [i \in DOMAIN ns |-> NoteRow(i, ns[i].user_id, ns[i].subject, ns[i].tags)]
        /\ assignments = [i \in DOMAIN as |->
                AssignmentRow(i, as[i].user_id, start_date + as[i].due, as[i].tags)]
    /\ spaced_repetitions = <<>>
    /\ study_plans = <<>>
    /\ response = NoResponse
    /\ frame = NULL
    /\ tag_table = <<>>
    /\ calls = NoCalls
    /\ requests = NoRequests

PlanNext == GeneratePlan

PlanSpec == PlanInit /\ [][PlanNext]_vars

(***************************************************************************)
(* The generate endpoint on a small database.                              *)
(***************************************************************************)
StudyPlanInit ==
    /\ start_date \in {strptime_Ymd(<<2026, 2, 1>>), strptime_Ymd(<<2027, 12, 15>>)}
    /\ now = start_date + timedelta_days(1) + 1
    /\ users = {1, 2}
    /\ user_rows = UserRowsOf({1, 2})
    /\ \E ns \in SeqsUpTo(NoteShapes, 1) \cup FixedNoteLists, as \in SeqsUpTo(AssignmentShapes, 1) :
        /\ notes = [i \in DOMAIN ns |-> NoteRow(i, ns[i].user_id, ns[i].subject, ns[i].tags)]
        /\ assignments = [i \in DOMAIN as |->
                AssignmentRow(i, as[i].user_id, start_date + as[i].due, as[i].tags)]
    /\ spaced_repetitions = <<>>
    /\ study_plans = <<>>
    /\ response = NoResponse
    /\ frame = NULL
    /\ tag_table = <<>>
    /\ calls = NoCalls
    /\ requests = NoRequests

GenerateStudyPlanInputs ==
    {NoStartDate, BadStartDate, [start_date |-> strftime_Ymd(start_date)]}

GenerateStudyPlan ==
    \E u \in {1, 3}, d \in GenerateStudyPlanInputs : GenerateStudyPlanPost(u, d)

StudyPlanNext ==
    \/ GeneratePlan
    \/ GenerateStudyPlan

StudyPlanSpec == StudyPlanInit /\ [][StudyPlanNext]_vars

(***************************************************************************)
(* Reviews of a record as the database file holds it, written by this      *)
(* program or not: the columns revision_count and repetition_dates carry   *)
(* no constraint (lines 188-189).                                          *)
(***************************************************************************)
StoredRevisionCounts == {-9, -1, 0, 1, 3}

StoredRepetitionDates == {NULL, json_dumps(<<>>), json_dumps(<<isoformat(0)>>)}

StoredInit ==
    /\ now = 0
    /\ users = {1}
    /\ user_rows = UserRowsOf({1})
    /\ notes = <<NoteRow(1, 1, "Math", json_dumps(<<>>))>>
    /\ assignments = <<>>
    /\ \E n \in StoredRevisionCounts, dates \in StoredRepetitionDates :
        spaced_repetitions =
            <<[id |-> 1, user_id |-> 1, note_id |-> 1, repetition_dates |-> dates,
               revision_count |-> n, next_review_date |-> timedelta_days(1)]>>
    /\ study_plans = <<>>
    /\ response = NoResponse
    /\ start_date = 0
    /\ frame = NULL
    /\ tag_table = <<>>
    /\ calls = NoCalls
    /\ requests = NoRequests

StoredNext ==
    \/ Tick
    \/ LongRecordReview
    \/ LongMarkReviewed

StoredSpec == StoredInit /\ [][StoredNext]_vars

(***************************************************************************)
(* Review requests served at the same time, one thread and one session     *)
(* each.  A session loads the row (lines 908-911, 988), the handler        *)
(* computes the new values from the loaded attributes (924-931, 990-1000)  *)
(* and the commit writes them with UPDATE ... WHERE id = ? (932, 1002).    *)
(* No lock, version column or retry stands between the two.                *)
(***************************************************************************)
RequestIds == {1, 2}

IdleRequest == [pc |-> "idle", op |-> "none", spaced_rep |-> NULL]

\* lines 901-911: RecordNoteReview.post up to the query, the record found
RecordNoteReviewLoad(q, user_id, data) ==
    /\ requests[q].pc = "idle"
    /\ user_id \in users
    /\ data # NoNoteId
    /\ GetRow(notes, data.note_id) # NULL
    /\ FindSpacedRep(user_id, data.note_id) # NULL
    /\ FindSpacedRep(user_id, data.note_id).revision_count < MaxSharedReviews
    /\ requests' = [requests EXCEPT ![q] =
            [pc |-> "loaded", op |-> "record_note_review",
             spaced_rep |-> FindSpacedRep(user_id, data.note_id)]]
    /\ UNCHANGED <<now, users, user_rows, notes, assignments, spaced_repetitions, study_plans,
                   response, start_date, frame, tag_table, calls>>

\* line 988: ReviewSpacedRep.post up to get_or_404, the record found
ReviewSpacedRepLoad(q, rep_id) ==
    /\ requests[q].pc = "idle"
    /\ GetRow(spaced_repetitions, rep_id) # NULL
    /\ GetRow(spaced_repetitions, rep_id).revision_count < MaxSharedReviews
    /\ requests' = [requests EXCEPT ![q] =
            [pc |-> "loaded", op |-> "mark_reviewed",
             spaced_rep |-> GetRow(spaced_repetitions, rep_id)]]
    /\ UNCHANGED <<now, users, user_rows, notes, assignments, spaced_repetitions, study_plans,
                   response, start_date, frame, tag_table, calls>>

\* lines 924-933 and 990-1004: the rest of the handler, on the loaded row
ReviewCommit(q) ==
    /\ requests[q].pc = "loaded"
    /\ \E t2 \in LaterClock(now) :
        LET updated == IF requests[q].op = "record_note_review"
                       THEN RecordNoteReviewUpdate(requests[q].spaced_rep, now, t2)
                       ELSE ReviewSpacedRepUpdate(requests[q].spaced_rep, now, t2)
        IN  /\ spaced_repetitions' = UpdateRow(spaced_repetitions, updated)
            /\ response' = [op |-> requests[q].op, status |-> 200,
                            body |-> SpacedRepetition_to_dict(updated)]
            /\ now' = t2
    /\ requests' = [requests EXCEPT ![q] = IdleRequest]
    /\ UNCHANGED <<users, user_rows, notes, assignments, study_plans, start_date, frame,
                   tag_table, calls>>

\* one user, one note, tracked and not yet reviewed
ConcurrentInit ==
    /\ now = 0
    /\ users = {1}
    /\ user_rows = UserRowsOf({1})
    /\ notes = <<NoteRow(1, 1, "Math", json_dumps(<<>>))>>
    /\ assignments = <<>>
    /\ spaced_repetitions =
        <<[id |-> 1, user_id |-> 1, note_id |-> 1, repetition_dates |-> json_dumps(<<>>),
           revision_count |-> 0, next_review_date |-> timedelta_days(1)]>>
    /\ study_plans = <<>>
    /\ response = NoResponse
    /\ start_date = 0
    /\ frame = NULL
    /\ tag_table = <<>>
    /\ calls = NoCalls
    /\ requests = [q \in RequestIds |-> IdleRequest]

LoadByNote ==
    \E q \in RequestIds, u \in UserIdInputs, d \in SpacedRepBodies : RecordNoteReviewLoad(q, u, d)
LoadById == \E q \in RequestIds, r \in RepIdInputs : ReviewSpacedRepLoad(q, r)
Commit == \E q \in RequestIds : ReviewCommit(q)

ConcurrentNext ==
    \/ Tick
    \/ LoadByNote
    \/ LoadById
    \/ Commit

ConcurrentSpec == ConcurrentInit /\ [][ConcurrentNext]_vars

(***************************************************************************)
(* Users.  The columns microsoft_id and email are both declared unique     *)
(* (lines 114-115): an INSERT that repeats a value fails at commit with an *)
(* IntegrityError, which no handler catches (status 500, nothing stored).  *)
(***************************************************************************)
\* the bodies of POST /api/users; a field is a sequence, empty when the key
\* is absent
UserBodies ==
    {[microsoft_id |-> m, email |-> e] :
        m \in {<<>>, <<"ms_1">>, <<"ms_2">>, <<"ms_3">>},
        e \in {<<>>, <<"one@example.com">>, <<"two@example.com">>, <<"three@example.com">>}}

\* the INSERT of this row violates a unique constraint of the table users
UserIntegrityError(user) ==
    \E i \in DOMAIN user_rows :
        \/ user_rows[i].microsoft_id = user.microsoft_id
        \/ user_rows[i].email = user.email

\* lines 588-608 without the test for an existing user (lines 595-597)
UserListPost_NoExistingTest(data) ==
    IF data.microsoft_id = <<>> \/ data.email = <<>> THEN Abort("create_user", 400)
    ELSE
        LET user == UserRow(NewId(user_rows), data.microsoft_id[1], data.email[1])
        IN  IF UserIntegrityError(user) THEN Abort("create_user", 500)
            ELSE
                /\ user.id <= MaxRecordId
                /\ users' = users \cup {user.id}
                /\ user_rows' = Append(user_rows, user)
                /\ response' = [op |-> "create_user", status |-> 201, body |-> user]
                /\ UNCHANGED <<now, notes, assignments, spaced_repetitions, study_plans,
                               start_date, frame, tag_table, calls, requests>>

\* POST /api/users
UserListPost(data) ==
    IF data.microsoft_id = <<>> \/ data.email = <<>> THEN Abort("create_user", 400)
    ELSE
        LET existing_user ==
                First(SelectSeq(user_rows, LAMBDA u : u.microsoft_id = data.microsoft_id[1]))
            user == UserRow(NewId(user_rows), data.microsoft_id[1], data.email[1])
        IN  IF existing_user # NULL THEN Abort("create_user", 409)
            ELSE IF UserIntegrityError(user) THEN Abort("create_user", 500)
            ELSE
                /\ user.id <= MaxRecordId
                /\ users' = users \cup {user.id}
                /\ user_rows' = Append(user_rows, user)
                /\ response' = [op |-> "create_user", status |-> 201, body |-> user]
                /\ UNCHANGED <<now, notes, assignments, spaced_repetitions, study_plans,
                               start_date, frame, tag_table, calls, requests>>

\* the tables as db.create_all leaves them
UsersInit ==
    /\ now = 0
    /\ users = {}
    /\ user_rows = UserRowsOf({})
    /\ notes = <<>>
    /\ assignments = <<>>
    /\ spaced_repetitions = <<>>
    /\ study_plans = <<>>
    /\ response = NoResponse
    /\ start_date = 0
    /\ frame = NULL
    /\ tag_table = <<>>
    /\ calls = NoCalls
    /\ requests = NoRequests

CreateUser == \E d \in UserBodies : UserListPost(d)

UsersNext == CreateUser

UsersSpec == UsersInit /\ [][UsersNext]_vars

(***************************************************************************)
(* Start-tracking and record-review requests served at the same time.  The *)
(* query for an existing record (lines 869-872, 908-911) and the INSERT    *)
(* that follows it when none is found (885-886, 921-922, 932) are two      *)
(* statements of one request; the table spaced_repetitions has no unique   *)
(* constraint on (user_id, note_id) (lines 181-193).                       *)
(***************************************************************************)
\* lines 860-875: SpacedRepList.post up to the test on existing
SpacedRepListQuery(q, user_id, data) ==
    /\ requests[q].pc = "idle"
    /\ IF user_id \notin users THEN Abort("add_to_spaced_repetition", 404)
       ELSE IF data = NoNoteId THEN Abort("add_to_spaced_repetition", 400)
       ELSE IF GetRow(notes, data.note_id) = NULL THEN Abort("add_to_spaced_repetition", 404)
       ELSE IF FindSpacedRep(user_id, data.note_id) # NULL
       THEN Abort("add_to_spaced_repetition", 409)
       ELSE
           /\ requests' = [requests EXCEPT ![q] =
                   [pc |-> "queried", op |-> "add_to_spaced_repetition",
                    spaced_rep |-> [user_id |-> user_id, note_id |-> data.note_id]]]
           /\ UNCHANGED <<now, users, user_rows, notes, assignments, spaced_repetitions, study_plans,
                          response, start_date, frame, tag_table, calls>>

\* lines 877-890: the rest of SpacedRepList.post
SpacedRepListInsert(q) ==
    /\ requests[q].pc = "queried"
    /\ requests[q].op = "add_to_spaced_repetition"
    /\ LET spaced_rep == NewSpacedRep(requests[q].spaced_rep.user_id,
                                      requests[q].spaced_rep.note_id,
                                      now + timedelta_days(1))
       IN  /\ spaced_rep.id <= MaxRecordId
           /\ spaced_repetitions' = Append(spaced_repetitions, spaced_rep)
           /\ response' = [op |-> "add_to_spaced_repetition", status |-> 201,
                           body |-> SpacedRepetition_to_dict(spaced_rep)]
    /\ requests' = [requests EXCEPT ![q] = IdleRequest]
    /\ UNCHANGED <<now, users, user_rows, notes, assignments, study_plans, start_date, frame,
                   tag_table, calls>>

\* lines 901-913: RecordNoteReview.post up to the query, no record found
RecordNoteReviewQuery(q, user_id, data) ==
    /\ requests[q].pc = "idle"
    /\ user_id \in users
    /\ data # NoNoteId
    /\ GetRow(notes, data.note_id) # NULL
    /\ FindSpacedRep(user_id, data.note_id) = NULL
    /\ requests' = [requests EXCEPT ![q] =
            [pc |-> "queried", op |-> "record_note_review",
             spaced_rep |-> [user_id |-> user_id, note_id |-> data.note_id]]]
    /\ UNCHANGED <<now, users, user_rows, notes, assignments, spaced_repetitions, study_plans,
                   response, start_date, frame, tag_table, calls>>

\* lines 914-933: the rest of RecordNoteReview.post when no record was found
RecordNoteReviewCreate(q) ==
    /\ requests[q].pc = "queried"
    /\ requests[q].op = "record_note_review"
    /\ LET spaced_rep == NewSpacedRep(requests[q].spaced_rep.user_id,
                                      requests[q].spaced_rep.note_id,
                                      now + timedelta_days(1))
       IN  /\ spaced_rep.id <= MaxRecordId
           /\ \E t2 \in LaterClock(now) :
                LET updated == RecordNoteReviewUpdate(spaced_rep, now, t2)
                IN  /\ spaced_repetitions' = Append(spaced_repetitions, updated)
                    /\ response' = [op |-> "record_note_review", status |-> 200,
                                    body |-> SpacedRepetition_to_dict(updated)]
                    /\ now' = t2
    /\ requests' = [requests EXCEPT ![q] = IdleRequest]
    /\ UNCHANGED <<users, user_rows, notes, assignments, study_plans, start_date, frame,
                   tag_table, calls>>

\* one user with one note, nothing tracked yet
TrackingInit ==
    /\ now = 0
    /\ users = {1}
    /\ user_rows = UserRowsOf({1})
    /\ notes = <<NoteRow(1, 1, "Math", json_dumps(<<>>))>>
    /\ assignments = <<>>
    /\ spaced_repetitions = <<>>
    /\ study_plans = <<>>
    /\ response = NoResponse
    /\ start_date = 0
    /\ frame = NULL
    /\ tag_table = <<>>
    /\ calls = NoCalls
    /\ requests = [q \in RequestIds |-> IdleRequest]

QueryToAdd ==
    \E q \in RequestIds, u \in UserIdInputs, d \in SpacedRepBodies : SpacedRepListQuery(q, u, d)
InsertAdded == \E q \in RequestIds : SpacedRepListInsert(q)
QueryToRecord ==
    \E q \in RequestIds, u \in UserIdInputs, d \in SpacedRepBodies : RecordNoteReviewQuery(q, u, d)
InsertRecorded == \E q \in RequestIds : RecordNoteReviewCreate(q)

TrackingNext ==
    \/ Tick
    \/ QueryToAdd
    \/ InsertAdded
    \/ QueryToRecord
    \/ InsertRecorded
    \/ LoadByNote
    \/ Commit

TrackingSpec == TrackingInit /\ [][TrackingNext]_vars

(***************************************************************************)
(* Notes and the tags a note may carry.  A field of a request body is a    *)
(* sequence: empty when the key is absent, else holding the value.         *)
(***************************************************************************)
\* the tag names a client sends
TagNameInputs == {"OOP", " OOP ", "Java", "  "}

\* str.strip() on the names above
strip(name) ==
    CASE name = " OOP " -> "OOP"
      [] name = "  " -> ""
      [] OTHER -> name

\* a tag created by hand: source_assignment_id is NULL
TagRow(id, user_id, name) ==
    [id |-> id, user_id |-> user_id, name |-> name, source_assignment_id |-> NULL]

\* lines 1676-1695
validate_note_tags(user_id, tag_names) ==
    LET stripped == [i \in DOMAIN tag_names |-> strip(tag_names[i])]
        named == SelectSeq(stripped, LAMBDA n : n # "")
        existing_tag(n) == First(SelectSeq(tag_table, LAMBDA t : t.user_id = user_id /\ t.name = n))
    IN  [valid_tags |-> SelectSeq(named, LAMBDA n : existing_tag(n) # NULL),
         invalid_tags |-> SelectSeq(named, LAMBDA n : existing_tag(n) = NULL)]

Note_to_dict(note) ==
    [id |-> note.id,
     user_id |-> note.user_id,
     content |-> json_loads(note.content),
     subject |-> note.subject,
     tags |-> IF note.tags = NULL THEN <<>> ELSE json_loads(note.tags)]

\* POST /api/users/<user_id>/notes
UserNoteListPost(user_id, data) ==
    IF user_id \notin users THEN Abort("create_note", 404)
    ELSE IF data.content = <<>> THEN Abort("create_note", 400)
    ELSE
        LET requested_tags == IF data.tags = <<>> THEN <<>> ELSE data.tags[1]
            checked == validate_note_tags(user_id, requested_tags)
            tags_to_save == IF requested_tags # <<>> THEN checked.valid_tags ELSE <<>>
            note == [id |-> NewId(notes),
                     user_id |-> user_id,
                     content |-> json_dumps(data.content[1]),
                     subject |-> IF data.subject = <<>> THEN "" ELSE data.subject[1],
                     tags |-> json_dumps(tags_to_save)]
        IN  IF requested_tags # <<>> /\ checked.invalid_tags # <<>>
            THEN Abort("create_note", 400)
            ELSE
                /\ note.id <= MaxNotes
                /\ notes' = Append(notes, note)
                /\ response' = [op |-> "create_note", status |-> 201, body |-> Note_to_dict(note)]
                /\ UNCHANGED <<now, users, user_rows, assignments, spaced_repetitions, study_plans,
                               start_date, frame, tag_table, calls, requests>>

\* lines 715-739 with the content and subject written before the tags are checked
NoteResourcePut_WrittenFirst(note_id, data) ==
    LET note == GetRow(notes, note_id)
    IN  IF note = NULL THEN Abort("update_note", 404)
        ELSE
            LET with_content == IF data.content # <<>>
                                THEN [note EXCEPT !.content = json_dumps(data.content[1])]
                                ELSE note
                with_subject == IF data.subject # <<>>
                                THEN [with_content EXCEPT !.subject = data.subject[1]]
                                ELSE with_content
                requested_tags == IF data.tags = <<>> THEN <<>> ELSE data.tags[1]
                checked == validate_note_tags(note.user_id, requested_tags)
                with_tags == IF data.tags = <<>> THEN with_subject
                             ELSE IF requested_tags # <<>>
                             THEN [with_subject EXCEPT !.tags = json_dumps(checked.valid_tags)]
                             ELSE [with_subject EXCEPT !.tags = json_dumps(<<>>)]
                rejected == requested_tags # <<>> /\ checked.invalid_tags # <<>>
            IN  /\ notes' = UpdateRow(notes, IF rejected THEN with_subject ELSE with_tags)
                /\ response' = IF rejected
                               THEN [op |-> "update_note", status |-> 400, body |-> NULL]
                               ELSE [op |-> "update_note", status |-> 200,
                                     body |-> Note_to_dict(with_tags)]
                /\ UNCHANGED <<now, users, user_rows, assignments, spaced_repetitions, study_plans,
                               start_date, frame, tag_table, calls, requests>>

\* PUT /api/notes/<note_id>: lines 720-723 change the note in the session only;
\* the abort of line 731 ends the request without a commit and the session is
\* rolled back
NoteResourcePut(note_id, data) ==
    LET note == GetRow(notes, note_id)
    IN  IF note = NULL THEN Abort("update_note", 404)
        ELSE
            LET with_content == IF data.content # <<>>
                                THEN [note EXCEPT !.content = json_dumps(data.content[1])]
                                ELSE note
                with_subject == IF data.subject # <<>>
                                THEN [with_content EXCEPT !.subject = data.subject[1]]
                                ELSE with_content
                requested_tags == IF data.tags = <<>> THEN <<>> ELSE data.tags[1]
                checked == validate_note_tags(note.user_id, requested_tags)
                with_tags == IF data.tags = <<>> THEN with_subject
                             ELSE IF requested_tags # <<>>
                             THEN [with_subject EXCEPT !.tags = json_dumps(checked.valid_tags)]
                             ELSE [with_subject EXCEPT !.tags = json_dumps(<<>>)]
            IN  IF requested_tags # <<>> /\ checked.invalid_tags # <<>>
                THEN Abort("update_note", 400)
                ELSE
                    /\ notes' = UpdateRow(notes, with_tags)
                    /\ response' = [op |-> "update_note", status |-> 200,
                                    body |-> Note_to_dict(with_tags)]
                    /\ UNCHANGED <<now, users, user_rows, assignments, spaced_repetitions, study_plans,
                                   start_date, frame, tag_table, calls, requests>>

\* the bodies of the note requests
\* the content and subject of a body: both absent, or both given
NoteTexts ==
    {[content |-> <<>>, subject |-> <<>>],
     [content |-> <<"b">>, subject |-> <<"S">>]}

NoteBodies ==
    {[content |-> x.content, subject |-> x.subject, tags |-> t] :
        x \in NoteTexts,
        t \in {<<>>, <<<<>>>>} \cup {<<<<n>>>> : n \in TagNameInputs}
                \cup {<<<<"OOP", "Java">>>>}}

\* two users, each with one tag registered, and a note of the first
NotesInit ==
    /\ now = 0
    /\ users = {1, 2}
    /\ user_rows = UserRowsOf({1, 2})
    /\ notes = <<NoteRow(1, 1, "", json_dumps(<<>>))>>
    /\ assignments = <<>>
    /\ spaced_repetitions = <<>>
    /\ study_plans = <<>>
    /\ response = NoResponse
    /\ start_date = 0
    /\ frame = NULL
    /\ tag_table = <<TagRow(1, 1, "OOP"), TagRow(2, 2, "Java")>>
    /\ calls = NoCalls
    /\ requests = NoRequests

CreateNote == \E u \in UserIdInputs, d \in NoteBodies : UserNoteListPost(u, d)
UpdateNote == \E n \in 1 .. MaxNotes + 1, d \in NoteBodies : NoteResourcePut(n, d)

NotesNext ==
    \/ CreateNote
    \/ UpdateNote

NotesSpec == NotesInit /\ [][NotesNext]_vars

(***************************************************************************)
(* Assignments and the tags they register.  Of an assignment the rows keep *)
(* the columns the tag and plan code reads: id, user_id, due_date, tags.   *)
(***************************************************************************)
\* lines 1657-1671 without the test on existing_tag (lines 1662-1663)
sync_tag_Again(table, user_id, assignment_id, name) ==
    LET tag_name == strip(name)
    IN  IF tag_name = "" THEN table
        ELSE Append(table, [id |-> NewId(table), user_id |-> user_id, name |-> tag_name,
                            source_assignment_id |-> assignment_id])

\* lines 1657-1671: one pass of the loop of sync_tags_from_assignment over a
\* table of tags; the query of line 1662 sees the tags the earlier passes
\* added to the session (autoflush)
sync_tag(table, user_id, assignment_id, name) ==
    LET tag_name == strip(name)
        existing_tag ==
            First(SelectSeq(table, LAMBDA t : t.user_id = user_id /\ t.name = tag_name))
    IN  IF tag_name = "" THEN table
        ELSE IF existing_tag = NULL
        THEN Append(table, [id |-> NewId(table), user_id |-> user_id, name |-> tag_name,
                            source_assignment_id |-> assignment_id])
        ELSE table

RECURSIVE sync_tags_loop(_, _, _, _, _)
\* line 1656: for tag_name in tag_names, from the i-th name on
sync_tags_loop(table, user_id, assignment_id, tag_names, i) ==
    IF i > Len(tag_names) THEN table
    ELSE sync_tags_loop(sync_tag(table, user_id, assignment_id, tag_names[i]),
                        user_id, assignment_id, tag_names, i + 1)

\* the table tags after sync_tags_from_assignment(user_id, assignment_id, tag_names)
sync_tags_from_assignment(user_id, assignment_id, tag_names) ==
    sync_tags_loop(tag_table, user_id, assignment_id, tag_names, 1)

Assignment_to_dict(assignment) ==
    [id |-> assignment.id,
     user_id |-> assignment.user_id,
     due_date |-> isoformat(assignment.due_date),
     tags |-> IF assignment.tags = NULL THEN <<>> ELSE json_loads(assignment.tags)]

\* POST /api/assignments/user/<user_id>
AssignmentListPost(user_id, data) ==
    IF user_id \notin users THEN Abort("create_assignment", 404)
    ELSE IF data.name = <<>> \/ data.due_date = <<>> THEN Abort("create_assignment", 400)
    ELSE
        LET tag_list == IF data.tags = <<>> THEN <<>> ELSE data.tags[1]
            assignment == AssignmentRow(NewId(assignments), user_id, data.due_date[1],
                                        json_dumps(tag_list))
        IN  /\ assignment.id <= MaxAssignments
            /\ assignments' = Append(assignments, assignment)
            /\ tag_table' = sync_tags_from_assignment(user_id, assignment.id, tag_list)
            /\ response' = [op |-> "create_assignment", status |-> 201,
                            body |-> Assignment_to_dict(assignment)]
            /\ UNCHANGED <<now, users, user_rows, notes, spaced_repetitions, study_plans,
                           start_date, frame, calls, requests>>

\* PUT /api/assignments/<assignment_id>
AssignmentResourcePut(assignment_id, data) ==
    LET assignment == GetRow(assignments, assignment_id)
    IN  IF assignment = NULL THEN Abort("update_assignment", 404)
        ELSE
            LET with_due_date == IF data.due_date # <<>>
                                 THEN [assignment EXCEPT !.due_date = data.due_date[1]]
                                 ELSE assignment
                with_tags == IF data.tags # <<>>
                             THEN [with_due_date EXCEPT !.tags = json_dumps(data.tags[1])]
                             ELSE with_due_date
            IN  /\ assignments' = UpdateRow(assignments, with_tags)
                /\ tag_table' = IF data.tags # <<>>
                                THEN sync_tags_from_assignment(assignment.user_id,
                                                               assignment.id, data.tags[1])
                                ELSE tag_table
                /\ response' = [op |-> "update_assignment", status |-> 200,
                                body |-> Assignment_to_dict(with_tags)]
                /\ UNCHANGED <<now, users, user_rows, notes, spaced_repetitions, study_plans,
                               start_date, frame, calls, requests>>

\* the bodies of the assignment requests: an empty one, and those with a name
\* and a due date four days after start_date, with and without tags
AssignmentBodies ==
    {[name |-> <<>>, due_date |-> <<>>, tags |-> <<>>]}
        \cup {[name |-> <<"HW">>, due_date |-> <<start_date + timedelta_days(4)>>, tags |-> t] :
                t \in {<<>>, <<<<"Java">>>>, <<<<" OOP ", "  ", "OOP">>>>}}

\* two users; the second has registered the tag OOP by hand
AssignmentsInit ==
    /\ start_date = strptime_Ymd(<<2026, 2, 1>>)
    /\ now = start_date
    /\ users = {1, 2}
    /\ user_rows = UserRowsOf({1, 2})
    /\ notes = <<>>
    /\ assignments = <<>>
    /\ spaced_repetitions = <<>>
    /\ study_plans = <<>>
    /\ response = NoResponse
    /\ frame = NULL
    /\ tag_table = <<TagRow(1, 2, "OOP")>>
    /\ calls = NoCalls
    /\ requests = NoRequests

CreateAssignment == \E u \in {1, 3}, d \in AssignmentBodies : AssignmentListPost(u, d)
UpdateAssignment ==
    \E a \in 1 .. MaxAssignments + 1, d \in AssignmentBodies : AssignmentResourcePut(a, d)

AssignmentsNext ==
    \/ CreateAssignment
    \/ UpdateAssignment

AssignmentsSpec == AssignmentsInit /\ [][AssignmentsNext]_vars

(***************************************************************************)
(* Users and their first notes, from the empty database of                 *)
(* test_app.py: setUp (lines 10-18) creates the tables and each test       *)
(* creates its user before anything else.                                  *)
(***************************************************************************)
\* the bodies of the notes section and the body test_create_note sends
\* (test_app.py lines 92-96)
FirstNoteBodies ==
    NoteBodies \cup
        {[content |-> <<"b">>, subject |-> <<"Test Subject">>, tags |-> <<<<"test", "sample">>>>]}

CreateFirstNote == \E u \in UserIdInputs, d \in FirstNoteBodies : UserNoteListPost(u, d)

FirstNotesNext ==
    \/ CreateUser
    \/ CreateFirstNote

FirstNotesSpec == UsersInit /\ [][FirstNotesNext]_vars

(***************************************************************************)
(* From the requests to the plan: one user creates assignments and notes   *)
(* through the endpoints and the generator runs on the tables they leave.  *)
(***************************************************************************)
\* assignments due four days after start_date, tagged " OOP " or "Java"
PlanAssignmentBodies ==
    {[name |-> <<"HW">>, due_date |-> <<start_date + timedelta_days(4)>>, tags |-> <<t>>] :
        t \in {<<" OOP ">>, <<"Java">>}}

\* notes tagged OOP, and notes without a tag
PlanNoteBodies ==
    {[content |-> <<"b">>, subject |-> <<"S">>, tags |-> <<t>>] : t \in {<<"OOP">>, <<>>}}

RequestsInit ==
    /\ start_date = strptime_Ymd(<<2026, 2, 1>>)
    /\ now = start_date
    /\ users = {1}
    /\ user_rows = UserRowsOf({1})
    /\ notes = <<>>
    /\ assignments = <<>>
    /\ spaced_repetitions = <<>>
    /\ study_plans = <<>>
    /\ response = NoResponse
    /\ frame = NULL
    /\ tag_table = <<>>
    /\ calls = NoCalls
    /\ requests = NoRequests

SetAssignment == \E d \in PlanAssignmentBodies : AssignmentListPost(1, d)
TakeNote == \E d \in PlanNoteBodies : UserNoteListPost(1, d)

RequestsNext ==
    \/ SetAssignment
    \/ TakeNote
    \/ GeneratePlan

RequestsSpec == RequestsInit /\ [][RequestsNext]_vars

(***************************************************************************)
(* Both study-plan endpoints on a database whose notes change.             *)
(***************************************************************************)
\* two users; the first has a note and an assignment due four days after
\* start_date, both tagged OOP; today is the day after start_date
StoredPlanInit ==
    /\ start_date = strptime_Ymd(<<2026, 2, 1>>)
    /\ now = start_date + timedelta_days(1) + 1
    /\ users = {1, 2}
    /\ user_rows = UserRowsOf({1, 2})
    /\ notes = <<NoteRow(1, 1, "Math", json_dumps(<<"OOP">>))>>
    /\ assignments =
        <<AssignmentRow(1, 1, start_date + timedelta_days(4), json_dumps(<<"OOP">>))>>
    /\ spaced_repetitions = <<>>
    /\ study_plans = <<>>
    /\ response = NoResponse
    /\ frame = NULL
    /\ tag_table = <<TagRow(1, 1, "OOP")>>
    /\ calls = NoCalls
    /\ requests = NoRequests

StoredPlanStartDates == {NoStartDate, [start_date |-> strftime_Ymd(start_date)]}

GenerateForUser ==
    \E u \in users, d \in StoredPlanStartDates : GenerateStudyPlanPost(u, d)

PostStudyPlan ==
    \E u \in UserIdInputs, d \in {NoStudyPlan, [study_plan |-> ("note" :> "revise")]} :
        StudyPlanResourcePost(u, d)

\* a note with the tag of the assignment
WriteNote ==
    UserNoteListPost(1, [content |-> <<"b">>, subject |-> <<"S">>, tags |-> <<<<"OOP">>>>])

StoredPlanNext ==
    \/ GenerateForUser
    \/ PostStudyPlan
    \/ WriteNote

StoredPlanSpec == StoredPlanInit /\ [][StoredPlanNext]_vars

(***************************************************************************)
(* Calls of generate_monthly_plan_logic that overlap in time (one request  *)
(* thread each), run one pass of the loop over the days at a time.         *)
(***************************************************************************)
CallIds == {1, 2}

\* the locals as lines 1706 and 1731-1732 set them, with the monthly_plan an
\* earlier call of the thread built kept in place of the new {}
NewLocals_PlanKept(earlier) ==
    [monthly_plan |-> earlier.fr.monthly_plan, priority_index |-> 0,
     regular_index |-> 0, priority_slots |-> <<>>]

\* lines 1706, 1731-1732: monthly_plan = {}, priority_index = 0,
\* regular_index = 0, whatever an earlier call of the thread left behind
NewLocals(earlier) ==
    [monthly_plan |-> EmptyDict, priority_index |-> 0,
     regular_index |-> 0, priority_slots |-> <<>>]

IdleCall ==
    [pc |-> "idle", start_date |-> 0, notes |-> <<>>, assignments |-> <<>>,
     upcoming_assignments |-> <<>>, priority_notes |-> <<>>, regular_notes |-> <<>>,
     day_offset |-> 0,
     fr |-> [monthly_plan |-> EmptyDict, priority_index |-> 0,
             regular_index |-> 0, priority_slots |-> <<>>]]

\* lines 1704-1732: the call starts and runs up to the loop over the days
CallBegin(c, input) ==
    /\ calls[c].pc \in {"idle", "returned"}
    /\ LET upcoming == upcoming_assignments_of(input.start_date, input.assignments)
           priority_tags == priority_tags_of(upcoming)
       IN  calls' = [calls EXCEPT ![c] =
                [pc |-> "loop",
                 start_date |-> input.start_date,
                 notes |-> input.notes,
                 assignments |-> input.assignments,
                 upcoming_assignments |-> upcoming,
                 priority_notes |-> priority_notes_of(input.notes, priority_tags),
                 regular_notes |-> regular_notes_of(input.notes, priority_tags),
                 day_offset |-> 0,
                 fr |-> NewLocals(calls[c])]]
    /\ UNCHANGED <<now, users, user_rows, notes, assignments, spaced_repetitions, study_plans,
                   response, start_date, frame, tag_table, requests>>

\* lines 1734-1774: one pass of the loop over the days
CallDay(c) ==
    /\ calls[c].pc = "loop"
    /\ calls[c].day_offset < PlanDays
    /\ calls' = [calls EXCEPT ![c] =
            [calls[c] EXCEPT
                !.fr = DayBody(calls[c].day_offset, calls[c].start_date,
                               calls[c].upcoming_assignments, calls[c].priority_notes,
                               calls[c].regular_notes, calls[c].fr),
                !.day_offset = calls[c].day_offset + 1]]
    /\ UNCHANGED <<now, users, user_rows, notes, assignments, spaced_repetitions, study_plans,
                   response, start_date, frame, tag_table, requests>>

\* line 1776: return monthly_plan
CallReturn(c) ==
    /\ calls[c].pc = "loop"
    /\ calls[c].day_offset = PlanDays
    /\ calls' = [calls EXCEPT ![c] = [calls[c] EXCEPT !.pc = "returned"]]
    /\ UNCHANGED <<now, users, user_rows, notes, assignments, spaced_repetitions, study_plans,
                   response, start_date, frame, tag_table, requests>>

\* the arguments of the calls: the notes "" (no tags) and "Math" (OOP) with an
\* OOP assignment due 4 days after the start; the same notes with the
\* assignment due 30 days after a later start; three notes and no assignment
CallInputs ==
    LET two == <<NoteRow(1, 1, "", json_dumps(<<>>)), NoteRow(2, 1, "Math", json_dumps(<<"OOP">>))>>
        three == Append(two, NoteRow(3, 1, NoText, NULL))
        feb == strptime_Ymd(<<2026, 2, 1>>)
        dec == strptime_Ymd(<<2027, 12, 15>>)
    IN  {[start_date |-> feb, notes |-> two,
          assignments |-> <<AssignmentRow(1, 1, feb + timedelta_days(4), json_dumps(<<"OOP">>))>>],
         [start_date |-> dec, notes |-> two,
          assignments |-> <<AssignmentRow(1, 1, dec + timedelta_days(WindowDays), json_dumps(<<"OOP">>))>>],
         [start_date |-> feb, notes |-> three, assignments |-> <<>>]}

CallsInit ==
    /\ now = 0
    /\ users = {}
    /\ user_rows = UserRowsOf({})
    /\ notes = <<>>
    /\ assignments = <<>>
    /\ spaced_repetitions = <<>>
    /\ study_plans = <<>>
    /\ response = NoResponse
    /\ start_date = 0
    /\ frame = NULL
    /\ tag_table = <<>>
    /\ calls = [c \in CallIds |-> IdleCall]
    /\ requests = NoRequests

BeginCall == \E c \in CallIds, input \in CallInputs : CallBegin(c, input)
RunDay == \E c \in CallIds : CallDay(c)
ReturnPlan == \E c \in CallIds : CallReturn(c)

CallsNext ==
    \/ BeginCall
    \/ RunDay
    \/ ReturnPlan

CallsSpec == CallsInit /\ [][CallsNext]_vars

(***************************************************************************)
(* Properties of the spaced-repetition scheduler.                          *)
(***************************************************************************)
RepetitionDates(sr) == SpacedRepetition_to_dict(sr).repetition_dates

IsPrefix(s, t) == Len(s) <= Len(t) /\ \A i \in DOMAIN s : s[i] = t[i]

RecordIds(table) == {table[i].id : i \in DOMAIN table}

\* a step in which one of the two review endpoints recorded a review
ReviewRecorded ==
    /\ response'.op \in {"record_note_review", "mark_reviewed"}
    /\ response'.status = 200
    /\ spaced_repetitions' # spaced_repetitions

\* the row the review of this step wrote, and the same row before the step
ReviewedRow == GetRow(spaced_repetitions', response'.body.id)
RowBeforeReview == GetRow(spaced_repetitions, response'.body.id)

\* C1: whatever sequence of start-tracking, record-review, mark-reviewed and
\* delete requests has been served, every spaced-repetition record has
\* revision_count equal to the number of entries of repetition_dates.
C1_CountEqualsHistoryLength ==
    \A i \in DOMAIN spaced_repetitions :
        spaced_repetitions[i].revision_count = Len(RepetitionDates(spaced_repetitions[i]))

C1_Witness ==
    /\ response.op = "mark_reviewed"
    /\ response.status = 200
    /\ \E i \in DOMAIN spaced_repetitions :
        /\ spaced_repetitions[i].revision_count = 2
        /\ Len(RepetitionDates(spaced_repetitions[i])) = 2

\* C2: every recorded review raises revision_count of its record by exactly 1
\* and appends exactly one entry to repetition_dates, the earlier history being
\* kept as a prefix; and no step lowers the count or drops a history entry of
\* a record that exists before and after it.
C2_ReviewMonotonicity ==
    [][/\ ReviewRecorded =>
            LET before == IF RowBeforeReview = NULL
                          THEN [revision_count |-> 0, dates |-> <<>>]
                          ELSE [revision_count |-> RowBeforeReview.revision_count,
                                dates |-> RepetitionDates(RowBeforeReview)]
            IN  /\ ReviewedRow.revision_count = before.revision_count + 1
                /\ Len(RepetitionDates(ReviewedRow)) = Len(before.dates) + 1
                /\ IsPrefix(before.dates, RepetitionDates(ReviewedRow))
       /\ \A id \in RecordIds(spaced_repetitions) \cap RecordIds(spaced_repetitions') :
            /\ GetRow(spaced_repetitions', id).revision_count
                    >= GetRow(spaced_repetitions, id).revision_count
            /\ IsPrefix(RepetitionDates(GetRow(spaced_repetitions, id)),
                        RepetitionDates(GetRow(spaced_repetitions', id)))
      ]_vars

C2_Witness ==
    /\ response.op = "record_note_review"
    /\ response.status = 200
    /\ response.body.revision_count = 2
    /\ Len(response.body.repetition_dates) = 2
    /\ Len(spaced_repetitions) = 2

\* the interval table of the specification, in days, for the n-th review
IntervalDaysOfReview(n) ==
    CASE n = 1 -> 1
      [] n = 2 -> 3
      [] n = 3 -> 7
      [] n = 4 -> 14
      [] n = 5 -> 30
      [] n = 6 -> 60
      [] n >= 7 -> 90

\* C3: the n-th review of a record, through either endpoint, leaves
\* next_review_date = the time of the call + INTERVAL_TABLE[min(n-1, 6)] days,
\* so the third review leaves it 7 days after the call.
C3_NextReviewDate ==
    [][ReviewRecorded =>
            /\ ReviewedRow.next_review_date
                    = now' + IntervalDaysOfReview(ReviewedRow.revision_count) * TicksPerDay
            /\ response'.body.next_review_date = isoformat(ReviewedRow.next_review_date)
            /\ ReviewedRow.revision_count = 3 =>
                    ReviewedRow.next_review_date = now' + 7 * TicksPerDay
      ]_vars

C3_Witness ==
    /\ response.op = "record_note_review"
    /\ response.status = 200
    /\ response.body.revision_count = 3
    /\ response.body.next_review_date = isoformat(now + 7 * TicksPerDay)

\* whole days from the last recorded review of a row to its next_review_date
ScheduledDays(sr) ==
    LET dates == RepetitionDates(sr)
    IN  (sr.next_review_date - dates[Len(dates)].iso) \div TicksPerDay

\* C4: from the 8th review of a record on, every review sets next_review_date
\* to the time of the call + 90 days, and the interval a review uses is never
\* shorter than the one the previous review of the record used.
C4_IntervalSaturation ==
    [][ReviewRecorded =>
            /\ ReviewedRow.revision_count >= 8 =>
                    ReviewedRow.next_review_date = now' + 90 * TicksPerDay
            /\ (RowBeforeReview # NULL /\ RowBeforeReview.revision_count >= 1) =>
                    ScheduledDays(ReviewedRow) >= ScheduledDays(RowBeforeReview)
      ]_vars

C4_Witness ==
    /\ response.op = "mark_reviewed"
    /\ response.status = 200
    /\ response.body.revision_count >= 8
    /\ response.body.next_review_date = isoformat(now + 90 * TicksPerDay)

(***************************************************************************)
(* Properties of the study-plan generator, stated on the inputs of the     *)
(* call (start_date, notes, assignments) and on what it returned.          *)
(***************************************************************************)
PlanMade == frame # NULL

DayOffsets == 0 .. 29

DayOf(k) == start_date + k * TicksPerDay

DayKey(k) == strftime_mdY(DayOf(k))

SlotNumbers == 1 .. 5

SlotFilled(plan, k, s) == time_slots[s] \in DOMAIN plan[DayKey(k)]

SlotEntry(plan, k, s) == plan[DayKey(k)][time_slots[s]]

\* the assignments due in [start_date, start_date + 30 days], both ends included
DueInWindow(a) ==
    /\ start_date <= a.due_date
    /\ a.due_date <= start_date + 30 * TicksPerDay

WindowAssignments == {i \in DOMAIN assignments : DueInWindow(assignments[i])}

TagSet(row) == IF row.tags = NULL THEN {} ELSE {row.tags.json[j] : j \in DOMAIN row.tags.json}

\* a note is a priority note iff it shares a tag with an assignment of the window
IsPriorityNote(n) == \E i \in WindowAssignments : TagSet(n) \cap TagSet(assignments[i]) # {}

PriorityIds == {notes[i].id : i \in {j \in DOMAIN notes : IsPriorityNote(notes[j])}}

RegularIds == {notes[i].id : i \in {j \in DOMAIN notes : ~IsPriorityNote(notes[j])}}

\* whole days from day k of the plan to the nearest assignment of the window
DaysToNearest(k) ==
    LET ds == {(assignments[i].due_date - DayOf(k)) \div TicksPerDay : i \in WindowAssignments}
    IN  IF ds = {} THEN 30 ELSE CHOOSE m \in ds : \A d \in ds : m <= d

PrioritySlotCount(k) ==
    LET d == DaysToNearest(k)
    IN  CASE d <= 7 -> 4
          [] d >= 8 /\ d <= 14 -> 3
          [] d >= 15 /\ d <= 21 -> 2
          [] d > 21 -> 1

\* the slots of day k that hold a priority note
PriorityFilled(k) ==
    {s \in SlotNumbers :
        /\ SlotFilled(frame.monthly_plan, k, s)
        /\ SlotEntry(frame.monthly_plan, k, s).associated_notes[1] \in PriorityIds}

ExampleCall ==
    /\ strftime_Ymd(start_date) = <<2026, 2, 1>>
    /\ Len(notes) = 2
    /\ notes[1].id = 1 /\ TagSet(notes[1]) = {}
    /\ notes[2].id = 2 /\ TagSet(notes[2]) = {"OOP"}
    /\ Len(assignments) = 1
    /\ TagSet(assignments[1]) = {"OOP"}
    /\ strftime_Ymd(assignments[1].due_date) = <<2026, 2, 5>>

\* C6: on a day with priority_slots = k, when there are both priority and
\* regular notes, the first k slots in the order 09:00, 11:00, 14:00, 16:00,
\* 19:00 hold priority notes and the other 5-k hold regular notes; in the
\* example the slots 0-3 of 2026-02-01 hold note 2 and slot 4 holds note 1.
C6_SlotOrder ==
    PlanMade =>
        /\ (PriorityIds # {} /\ RegularIds # {}) =>
            \A k \in DayOffsets : \A s \in SlotNumbers :
                /\ SlotFilled(frame.monthly_plan, k, s)
                /\ s <= frame.priority_slots[k + 1] =>
                    SlotEntry(frame.monthly_plan, k, s).associated_notes[1] \in PriorityIds
                /\ s > frame.priority_slots[k + 1] =>
                    SlotEntry(frame.monthly_plan, k, s).associated_notes[1] \in RegularIds
        /\ ExampleCall =>
            LET day == frame.monthly_plan[<<2, 1, 2026>>]
            IN  /\ DOMAIN day = {"09:00", "11:00", "14:00", "16:00", "19:00"}
                /\ day["09:00"].associated_notes = <<2>>
                /\ day["11:00"].associated_notes = <<2>>
                /\ day["14:00"].associated_notes = <<2>>
                /\ day["16:00"].associated_notes = <<2>>
                /\ day["19:00"].associated_notes = <<1>>

C6_Witness ==
    /\ PlanMade
    /\ ExampleCall
    /\ frame.priority_slots[1] = 4
    /\ frame.monthly_plan[<<2, 1, 2026>>]["16:00"].associated_notes = <<2>>
    /\ frame.monthly_plan[<<2, 1, 2026>>]["19:00"].associated_notes = <<1>>

\* a plan of exactly 30 days, the days sd+0 .. sd+29, each with a slot map
CoversThirtyDays(plan, sd) ==
    /\ DOMAIN plan = {strftime_mdY(sd + k * TicksPerDay) : k \in DayOffsets}
    /\ Cardinality(DOMAIN plan) = 30
    /\ \A key \in DOMAIN plan :
        DOMAIN plan[key] \subseteq {"09:00", "11:00", "14:00", "16:00", "19:00"}

\* midnight of the day of t
DateOf(t) == (t \div TicksPerDay) * TicksPerDay

\* C7: every plan the generator returns, the note list or the assignment list
\* empty or not, has exactly 30 day keys, those of start_date+0 .. start_date+29,
\* each mapped to a slot map; and an answer 200 of the generate endpoint
\* carries such a plan, which is also the plan stored for the user.
C7_Coverage ==
    /\ PlanMade => CoversThirtyDays(frame.monthly_plan, start_date)
    /\ (response.op = "generate_study_plan" /\ response.status = 200) =>
        /\ \E sd \in {start_date, DateOf(now)} : CoversThirtyDays(response.body.study_plan, sd)
        /\ response.body.study_plan # EmptyDict
        /\ \E i \in DOMAIN study_plans :
            /\ study_plans[i].user_id = response.body.user_id
            /\ study_plans[i].study_plan = [json |-> response.body.study_plan]

C7_Witness ==
    /\ PlanMade
    /\ notes = <<>>
    /\ Cardinality(DOMAIN frame.monthly_plan) = 30
    /\ \A key \in DOMAIN frame.monthly_plan : frame.monthly_plan[key] = EmptyDict
    /\ response.op = "generate_study_plan"
    /\ response.status = 200
    /\ CoversThirtyDays(response.body.study_plan, DateOf(now))

\* C8: every populated slot of a generated plan names exactly one note id, the
\* id of a note of the input list, with that note's tags and that note's
\* subject, or "Study Session" when the note has no subject or an empty one.
C8_SlotsReferenceInputNotes ==
    PlanMade =>
        \A key \in DOMAIN frame.monthly_plan : \A slot \in DOMAIN frame.monthly_plan[key] :
            LET entry == frame.monthly_plan[key][slot]
            IN  /\ Len(entry.associated_notes) = 1
                /\ \E i \in DOMAIN notes :
                    /\ notes[i].id = entry.associated_notes[1]
                    /\ entry.tags = IF notes[i].tags = NULL THEN <<>> ELSE notes[i].tags.json
                    /\ entry.subject =
                        IF notes[i].subject = NoText \/ notes[i].subject = ""
                        THEN <<"Study Session">>
                        ELSE <<notes[i].subject>>

C8_Witness ==
    /\ PlanMade
    /\ \E i, j \in DOMAIN notes :
        /\ notes[i].subject = ""
        /\ notes[j].subject = "Math"
        /\ \E key \in DOMAIN frame.monthly_plan :
            /\ "09:00" \in DOMAIN frame.monthly_plan[key]
            /\ "19:00" \in DOMAIN frame.monthly_plan[key]
            /\ frame.monthly_plan[key]["19:00"].associated_notes = <<notes[i].id>>
            /\ frame.monthly_plan[key]["19:00"].subject = <<"Study Session">>
            /\ frame.monthly_plan[key]["09:00"].associated_notes = <<notes[j].id>>
            /\ frame.monthly_plan[key]["09:00"].subject = <<"Math">>

\* C9: the generator puts a note among the priority notes iff one of its tags
\* is a tag of an assignment due in [start_date, start_date + 30 days], both
\* ends included, and among the regular notes otherwise; a note without tags
\* is a regular note.
C9_Classification ==
    PlanMade =>
        /\ frame.priority_notes = SelectSeq(notes, LAMBDA n : IsPriorityNote(n))
        /\ frame.regular_notes = SelectSeq(notes, LAMBDA n : ~IsPriorityNote(n))
        /\ \A i \in DOMAIN notes :
            TagSet(notes[i]) = {} =>
                \E j \in DOMAIN frame.regular_notes : frame.regular_notes[j] = notes[i]

C9_Witness ==
    /\ PlanMade
    /\ Len(assignments) = 2
    /\ \E i, j \in DOMAIN assignments :
        /\ assignments[i].due_date = start_date + 30 * TicksPerDay
        /\ TagSet(assignments[i]) = {"OOP"}
        /\ assignments[j].due_date < start_date
    /\ Len(frame.priority_notes) = 1
    /\ TagSet(frame.priority_notes[1]) = {"OOP"}
    /\ Len(frame.regular_notes) = 1

\* C10: on each day of a generated plan priority_slots is 4, 3, 2 or 1 as the
\* whole days to the nearest assignment of the window are <= 7, 8..14, 15..21
\* or more than 21, these days being 30 when the window has no assignment.
C10_PrioritySlotCount ==
    PlanMade =>
        /\ Len(frame.priority_slots) = 30
        /\ \A k \in DayOffsets :
            /\ frame.priority_slots[k + 1] = PrioritySlotCount(k)
            /\ frame.priority_slots[k + 1] \in 1 .. 4

C10_Witness ==
    /\ PlanMade
    /\ WindowAssignments # {}
    /\ {frame.priority_slots[k + 1] : k \in DayOffsets} = {1, 2, 3, 4}
    /\ \E k \in DayOffsets : DaysToNearest(k) = 7 /\ frame.priority_slots[k + 1] = 4
    /\ \E k \in DayOffsets : DaysToNearest(k) = 8 /\ frame.priority_slots[k + 1] = 3

\* C11: a slot of a generated plan is left out iff the note list is empty: with
\* no note every one of the 30 days has an empty slot map, with at least one
\* note all 5 slots of all 30 days are filled.
C11_EmptySlotsIffNoNotes ==
    PlanMade =>
        /\ notes = <<>> =>
            \A k \in DayOffsets : DOMAIN frame.monthly_plan[DayKey(k)] = {}
        /\ notes # <<>> =>
            \A k \in DayOffsets :
                DOMAIN frame.monthly_plan[DayKey(k)] = {"09:00", "11:00", "14:00", "16:00", "19:00"}
        /\ \A k \in DayOffsets : \A s \in SlotNumbers :
            ~SlotFilled(frame.monthly_plan, k, s) <=> notes = <<>>

C11_Witness ==
    /\ PlanMade
    /\ Len(notes) = 1
    /\ PriorityIds # {}
    /\ assignments # <<>>
    /\ \E k \in DayOffsets : frame.priority_slots[k + 1] = 1
    /\ Cardinality({ks \in DayOffsets \X SlotNumbers :
                        SlotFilled(frame.monthly_plan, ks[1], ks[2])}) = 150

\* the slots of the plan that hold the note with this id
SlotsOfNote(id) ==
    UNION {{<<key, slot>> :
                slot \in {t \in DOMAIN frame.monthly_plan[key] :
                            frame.monthly_plan[key][t].associated_notes[1] = id}} :
           key \in DOMAIN frame.monthly_plan}

CeilDiv(a, b) == (a + b - 1) \div b

\* round-robin fairness of the plan for the notes of one list, given by their ids
FairlyShared(ids) ==
    LET N == Cardinality(ids)
        count == [id \in ids |-> Cardinality(SlotsOfNote(id))]
        total == Cardinality(UNION {SlotsOfNote(id) : id \in ids})
    IN  \A id \in ids :
            /\ \A other \in ids : count[other] - count[id] <= CeilDiv(total, N)
            /\ total >= N => count[id] > 0

\* C12: in a generated plan, for the priority notes and for the regular notes,
\* the slots given to a note of a list of size N are within
\* ceil(slots of the list / N) of those of the most used note of the list, and
\* no note of a list that fills at least N slots is left without a slot.
C12_RoundRobinFairness ==
    PlanMade =>
        /\ FairlyShared(PriorityIds)
        /\ FairlyShared(RegularIds)

C12_Witness ==
    /\ PlanMade
    /\ Cardinality(PriorityIds) = 2
    /\ Len(frame.priority_notes) = 2
    /\ \A id \in PriorityIds : Cardinality(SlotsOfNote(id)) = 75

(***************************************************************************)
(* Properties of overlapping calls of the generator.                       *)
(***************************************************************************)
SameArguments(a, b) ==
    /\ a.start_date = b.start_date
    /\ a.notes = b.notes
    /\ a.assignments = b.assignments

RecordsOf(table, user_id, note_id) ==
    {i \in DOMAIN table : table[i].user_id = user_id /\ table[i].note_id = note_id}

\* a start-tracking request of an existing user for an existing note
ValidStartTracking(u, d) ==
    /\ u \in users
    /\ d # NoNoteId
    /\ \E i \in DOMAIN notes : notes[i].id = d.note_id

\* C14: a start-tracking request for a (user, note) pair without a record is
\* answered 201 and adds exactly one record, with an empty repetition_dates,
\* revision_count 0 and next_review_date = now + 1 day, which it returns; the
\* other records stay as they are.
C14_StartTrackingCreates ==
    [][\A u \in UserIdInputs, d \in SpacedRepBodies :
        (/\ SpacedRepListPost(u, d)
         /\ ValidStartTracking(u, d)
         /\ RecordsOf(spaced_repetitions, u, d.note_id) = {}) =>
            LET created == spaced_repetitions'[Len(spaced_repetitions')]
            IN  /\ response'.op = "add_to_spaced_repetition"
                /\ response'.status = 201
                /\ Len(spaced_repetitions') = Len(spaced_repetitions) + 1
                /\ \A i \in DOMAIN spaced_repetitions :
                    spaced_repetitions'[i] = spaced_repetitions[i]
                /\ Cardinality(RecordsOf(spaced_repetitions', u, d.note_id)) = 1
                /\ created.user_id = u
                /\ created.note_id = d.note_id
                /\ created.revision_count = 0
                /\ created.repetition_dates = [json |-> <<>>]
                /\ created.next_review_date = now + TicksPerDay
                /\ now' = now
                /\ response'.body.id = created.id
                /\ response'.body.user_id = u
                /\ response'.body.note_id = d.note_id
                /\ response'.body.revision_count = 0
                /\ response'.body.repetition_dates = <<>>
                /\ response'.body.next_review_date = [iso |-> now + TicksPerDay]
      ]_vars

C14_Witness ==
    /\ response.op = "add_to_spaced_repetition"
    /\ response.status = 201
    /\ response.body.user_id = 2
    /\ response.body.revision_count = 0
    /\ response.body.repetition_dates = <<>>
    /\ Len(spaced_repetitions) = 2
    /\ spaced_repetitions[2].id = response.body.id
    /\ spaced_repetitions[2].next_review_date = now + TicksPerDay
    /\ spaced_repetitions[1].revision_count = 1

\* C15: a start-tracking request for a (user, note) pair that has a record is
\* answered 409, adds no record and leaves every record as it is, the existing
\* one with its revision_count, repetition_dates and next_review_date.
C15_DuplicateTracking ==
    [][\A u \in UserIdInputs, d \in SpacedRepBodies :
        (/\ SpacedRepListPost(u, d)
         /\ d # NoNoteId
         /\ RecordsOf(spaced_repetitions, u, d.note_id) # {}) =>
            /\ response'.op = "add_to_spaced_repetition"
            /\ response'.status = 409
            /\ spaced_repetitions' = spaced_repetitions
            /\ Cardinality(RecordsOf(spaced_repetitions', u, d.note_id)) = 1
      ]_vars

C15_Witness ==
    /\ response.op = "add_to_spaced_repetition"
    /\ response.status = 409
    /\ Len(spaced_repetitions) = 1
    /\ spaced_repetitions[1].revision_count = 2
    /\ Len(RepetitionDates(spaced_repetitions[1])) = 2

(***************************************************************************)
(* Properties of next_review_date.                                         *)
(***************************************************************************)
\* the latest timestamp of a non-empty history
LatestReview(sr) ==
    LET dates == RepetitionDates(sr)
    IN  CHOOSE t \in {dates[i].iso : i \in DOMAIN dates} :
            \A i \in DOMAIN dates : dates[i].iso <= t

\* C16: after every step, each record that has been reviewed has
\* next_review_date = its latest timestamp of repetition_dates + the interval
\* of its revision_count, and a step that is not a review of a record leaves
\* the record's next_review_date as it was.
C16_NextReviewDerived ==
    [][/\ \A i \in DOMAIN spaced_repetitions' :
            LET sr == spaced_repetitions'[i]
            IN  RepetitionDates(sr) # <<>> =>
                    sr.next_review_date =
                        LatestReview(sr) + IntervalDaysOfReview(sr.revision_count) * TicksPerDay
       /\ \A id \in RecordIds(spaced_repetitions) \cap RecordIds(spaced_repetitions') :
            (GetRow(spaced_repetitions', id).next_review_date
                    # GetRow(spaced_repetitions, id).next_review_date) =>
                (ReviewRecorded /\ response'.body.id = id)
      ]_vars

\* C17: when a review of a record completes, through either endpoint, the
\* record's next_review_date is not before the time at which the call
\* completes: it lies at least one day after it.
C17_NextReviewInFuture ==
    [][ReviewRecorded =>
            /\ ReviewedRow.next_review_date >= now'
            /\ ReviewedRow.next_review_date >= now' + TicksPerDay
      ]_vars

C17_Witness ==
    /\ response.op = "mark_reviewed"
    /\ response.status = 200
    /\ response.body.revision_count = 1
    /\ \E i \in DOMAIN spaced_repetitions :
        /\ spaced_repetitions[i].id = response.body.id
        /\ spaced_repetitions[i].next_review_date = now + TicksPerDay

(***************************************************************************)
(* Properties of reviews of a record in an invalid state.                  *)
(***************************************************************************)
InvalidState(sr) ==
    \/ sr.revision_count < 0
    \/ sr.revision_count # Len(RepetitionDates(sr))

Completes(q) == requests[q].pc = "loaded" /\ requests'[q].pc = "idle"

\* C19: no review is lost: every review request that completes leaves the
\* record with revision_count one above, and repetition_dates one entry longer
\* than, what the record held just before the request wrote; so two requests
\* that both read the record before either wrote raise the count by 2 and add
\* 2 entries.
C19_NoLostReview ==
    [][\A q \in DOMAIN requests :
        Completes(q) =>
            LET id == requests[q].spaced_rep.id
            IN  /\ GetRow(spaced_repetitions', id).revision_count
                        = GetRow(spaced_repetitions, id).revision_count + 1
                /\ Len(RepetitionDates(GetRow(spaced_repetitions', id)))
                        = Len(RepetitionDates(GetRow(spaced_repetitions, id))) + 1
      ]_vars

(***************************************************************************)
(* Notes and their tags                                                    *)
(***************************************************************************)
Unregistered(user_id, name) ==
    \A i \in DOMAIN tag_table :
        ~(tag_table[i].user_id = user_id /\ tag_table[i].name = name)

\* the tags a request body carries
CarriedTags(data) ==
    IF data.tags = <<>> THEN {} ELSE {data.tags[1][i] : i \in DOMAIN data.tags[1]}

\* the step leaves the table notes as it was
NothingSaved == response'.status = 400 /\ notes' = notes

\* the notes created, or given other tags, by the step carry registered tags
SavedTagsRegistered ==
    \A i \in DOMAIN notes' :
        (i \notin DOMAIN notes \/ notes'[i].tags # notes[i].tags)
            => LET saved == json_loads(notes'[i].tags)
               IN  \A k \in DOMAIN saved : ~Unregistered(notes'[i].user_id, saved[k])

\* the bodies carrying a tag that is not in the tag table of the user
UnregisteredTagBodies(user_id) ==
    {d \in NoteBodies : \E n \in CarriedTags(d) : Unregistered(user_id, n)}

\* the bodies carrying a tag whose stripped name is not empty and is not in
\* the tag table of the user
UnknownTagBodies(user_id) ==
    {d \in NoteBodies :
        \E n \in CarriedTags(d) : strip(n) # "" /\ Unregistered(user_id, strip(n))}

PlanDraws ==
    LET days == [k \in DayOffsets |-> frame.monthly_plan[DayKey(k)]]
    IN  [i \in 1 .. 150 |->
            LET day == days[(i - 1) \div 5]
                slot == time_slots[((i - 1) % 5) + 1]
            IN  IF slot \in DOMAIN day THEN day[slot].associated_notes[1] ELSE 0]

\* the ids of a set, in the order of the table notes
InNoteOrder(ids) ==
    LET all == [i \in DOMAIN notes |-> notes[i].id]
    IN  SelectSeq(all, LAMBDA id : id \in ids)

\* drawn is list[0], list[1], ..., list[N-1], list[0], ...
Cyclic(drawn, list) ==
    \A j \in DOMAIN drawn : drawn[j] = list[((j - 1) % Len(list)) + 1]

\* the draws of the plan from the notes with these ids cycle through them
DrawnInTurn(ids) ==
    Cyclic(SelectSeq(PlanDraws, LAMBDA id : id \in ids), InNoteOrder(ids))

\* C23: in a generated plan read in day order and, within a day, in slot
\* order, the notes drawn from priority_notes are p[0], p[1], ..., p[N-1],
\* p[0], ... from the first day to the last, and likewise the notes drawn from
\* regular_notes: the cursors start at 0 and are not reset between days.
C23_CursorsAcrossDays ==
    PlanMade => DrawnInTurn(PriorityIds) /\ DrawnInTurn(RegularIds)

\* a plan of two priority notes, five draws a day: the second day starts with
\* the second note
C23_Witness ==
    /\ PlanMade
    /\ Cardinality(PriorityIds) = 2
    /\ RegularIds = {}
    /\ PlanDraws[6] = InNoteOrder(PriorityIds)[2]
    /\ PlanDraws[11] = InNoteOrder(PriorityIds)[1]

\* C24: when no note is regular and some note is priority, each of the five
\* slots of each of the 30 days holds a priority note, the slots at or after
\* priority_slot_count included, and the 150 draws together are one cycle
\* through priority_notes that leaves the priority cursor at 150.
C24_FallbackToPriority ==
    (PlanMade /\ RegularIds = {} /\ PriorityIds # {}) =>
        /\ \A i \in 1 .. 150 : PlanDraws[i] \in PriorityIds
        /\ Cyclic(PlanDraws, InNoteOrder(PriorityIds))
        /\ frame.priority_index = 150
        /\ frame.regular_index = 0

\* two priority notes, no regular note, and a day whose priority_slot_count is 1
C24_Witness ==
    /\ PlanMade
    /\ RegularIds = {}
    /\ Cardinality(PriorityIds) = 2
    /\ \E k \in DayOffsets : PrioritySlotCount(k) = 1 /\ frame.priority_slots[k + 1] = 1
    /\ \A i \in 1 .. 150 : PlanDraws[i] # 0

\* some assignment of the window is at most 7 whole days after day k, or
\* before it
WithinSevenDays(k) ==
    \E i \in WindowAssignments : (assignments[i].due_date - DayOf(k)) \div TicksPerDay <= 7

\* C28: in a generated plan the priority_slot_count of a day is never below
\* that of the day before, and from the first day on which an assignment of
\* the window is within 7 days it is 4 on every day to the end of the plan,
\* the days after the due date included.
C28_SlotCountNeverDecreases ==
    PlanMade =>
        /\ \A k \in 0 .. 28 : frame.priority_slots[k + 1] <= frame.priority_slots[k + 2]
        /\ \A k \in DayOffsets :
            WithinSevenDays(k) => \A later \in k .. 29 : frame.priority_slots[later + 1] = 4

\* a plan whose count rises from 1 to 4, and a plan whose only assignment of
\* the window is due on its fifth day
C28_Witness ==
    /\ PlanMade
    /\ Cardinality(WindowAssignments) = 1
    /\ \/ frame.priority_slots[1] = 1 /\ frame.priority_slots[30] = 4
       \/ \E i \in WindowAssignments :
            /\ assignments[i].due_date = DayOf(4)
            /\ frame.priority_slots[30] = 4

(***************************************************************************)
(* Properties of the records and the notes they refer to                   *)
(***************************************************************************)
\* C25: whatever the interleaving of start-tracking and record-review
\* requests, no two records of the table spaced_repetitions have the same
\* user and the same note.
C25_OneRecordPerPair ==
    \A i, j \in DOMAIN spaced_repetitions :
        (/\ spaced_repetitions[i].user_id = spaced_repetitions[j].user_id
         /\ spaced_repetitions[i].note_id = spaced_repetitions[j].note_id) => i = j

\* the note of every record is a note of the record's user
NotesOwned ==
    \A i \in DOMAIN spaced_repetitions :
        GetRow(notes, spaced_repetitions[i].note_id).user_id = spaced_repetitions[i].user_id

\* a start-tracking or record-review request of a user for a note of another
\* user leaves the table spaced_repetitions as it was
ForeignNoteRefused ==
    \A u \in users, n \in RecordIds(notes) :
        (/\ GetRow(notes, n).user_id # u
         /\ \/ SpacedRepListPost(u, [note_id |-> n])
            \/ RecordNoteReviewPost(u, [note_id |-> n], MaxSharedReviews))
            => spaced_repetitions' = spaced_repetitions

\* C29: the note of every record is a note of the record's user in every
\* reachable state, and a start-tracking or record-review request of user U
\* for a note of another user creates and updates no record.
C29_NoteBelongsToUser == []NotesOwned /\ [][ForeignNoteRefused]_vars

(***************************************************************************)
(* Properties of the stored study plans                                    *)
(***************************************************************************)
PlansOf(table, user_id) == {i \in DOMAIN table : table[i].user_id = user_id}

OnePlanPerUser == \A u \in users : Cardinality(PlansOf(study_plans, u)) <= 1

\* the step answered a generate or a post request of user u with a plan
PlanWrittenFor(u) ==
    /\ response'.op \in {"generate_study_plan", "create_or_update_study_plan"}
    /\ response'.status \in {200, 201}
    /\ response'.body.user_id = u

\* the plan of user u is the plan of the table before the step, with a new
\* content, and no plan was added
PlanReplaced(u) ==
    /\ Len(study_plans') = Len(study_plans)
    /\ \A i \in DOMAIN study_plans :
        /\ study_plans'[i].plan_id = study_plans[i].plan_id
        /\ study_plans'[i].user_id = study_plans[i].user_id
        /\ study_plans[i].user_id # u => study_plans'[i] = study_plans[i]

\* the plan the generator makes of the notes and the assignments of user u
PlanOfUser(u, sd) ==
    generate_monthly_plan_logic(sd,
        SelectSeq(notes, LAMBDA n : n.user_id = u),
        SelectSeq(assignments, LAMBDA a : a.user_id = u))

\* the content of the plan the table holds for user u after the step
StoredPlanAfter(u) ==
    json_loads(study_plans'[CHOOSE i \in PlansOf(study_plans', u) : TRUE].study_plan)

\* C27: no user ever has two stored study plans; a generate or post request
\* for a user who has a plan gives that plan a new content and adds no plan,
\* and after a generate request the plan stored for the user is the plan the
\* generator makes of the user's notes and assignments of that moment.
C27_OnePlanPerUser ==
    /\ []OnePlanPerUser
    /\ [][\A u \in users :
            PlanWrittenFor(u) =>
                /\ PlansOf(study_plans, u) # {} => PlanReplaced(u)
                /\ \A d \in StoredPlanStartDates :
                    GenerateStudyPlanPost(u, d) =>
                        StoredPlanAfter(u) =
                            PlanOfUser(u, strptime_Ymd(IF d = NoStartDate
                                                       THEN strftime_Ymd(now)
                                                       ELSE d.start_date))]_vars

\* both users have a plan; the plan of the first, once posted, was generated
\* after a second note was written
C27_Witness ==
    /\ Len(study_plans) = 2
    /\ Len(notes) = 2
    /\ response.op = "generate_study_plan"
    /\ response.status = 200
    /\ response.body.user_id = 1
    /\ study_plans[1].user_id = 2
    /\ \E key \in DOMAIN response.body.study_plan :
        \E slot \in DOMAIN response.body.study_plan[key] :
            response.body.study_plan[key][slot].associated_notes = <<2>>

(***************************************************************************)
(* Properties of the users                                                 *)
(***************************************************************************)
OneUserPerMicrosoftId ==
    \A i, j \in DOMAIN user_rows :
        user_rows[i].microsoft_id = user_rows[j].microsoft_id => i = j

\* the bodies that name a microsoft_id and an email, the microsoft_id that of
\* a user of the table
DuplicateUserBodies ==
    {d \in UserBodies :
        /\ d.microsoft_id # <<>>
        /\ d.email # <<>>
        /\ \E i \in DOMAIN user_rows : user_rows[i].microsoft_id = d.microsoft_id[1]}

\* C22: a request to create a user with the microsoft_id of an existing user
\* is answered 409 and leaves the table users as it was; no two users ever
\* have the same microsoft_id.
C22_DuplicateUserRejected ==
    /\ []OneUserPerMicrosoftId
    /\ [][\A d \in DuplicateUserBodies :
            UserListPost(d) =>
                /\ response'.status = 409
                /\ users' = users
                /\ user_rows' = user_rows]_vars

\* the second request of the test: the user exists and the request is refused
C22_Witness ==
    /\ Len(user_rows) = 1
    /\ user_rows[1].microsoft_id = "ms_1"
    /\ response.op = "create_user"
    /\ response.status = 409

(***************************************************************************)
(* Properties of the tags an assignment registers                          *)
(***************************************************************************)
\* the rows of a table of tags for this user and this name
TagRowsOf(table, user_id, name) ==
    {i \in DOMAIN table : table[i].user_id = user_id /\ table[i].name = name}

\* the names of a tag list that are not blank, trimmed
TrimmedNames(tag_list) ==
    {strip(tag_list[k]) : k \in DOMAIN tag_list} \ {""}

\* what a step that saved the tag list T for an assignment of user u leaves
TagsRegisteredBy(u, T) ==
    /\ response'.status \in {200, 201}
    /\ response'.body.tags = T
    /\ \A name \in TrimmedNames(T) :
        Cardinality(TagRowsOf(tag_table', u, name)) = 1
    /\ \A k \in DOMAIN T :
        strip(T[k]) # "" => (validate_note_tags(u, <<T[k]>>).invalid_tags = <<>>)'
    /\ Len(tag_table') >= Len(tag_table)
    /\ \A i \in DOMAIN tag_table : tag_table'[i] = tag_table[i]
    /\ \A i \in DOMAIN tag_table' \ DOMAIN tag_table :
        /\ tag_table'[i].user_id = u
        /\ tag_table'[i].name \in TrimmedNames(T)
        /\ TagRowsOf(tag_table, u, tag_table'[i].name) = {}

\* C26: after an assignment is created, or its tags are updated, with the tag
\* list T, every name of T that is not blank once trimmed is in the user's tag
\* table, trimmed and once only, so that a note request carrying it passes the
\* tag validation; the tags the user had stay as they were, none is added a
\* second time, and the response carries T as it was submitted.
C26_AssignmentRegistersTags ==
    [][/\ \A u \in users, d \in AssignmentBodies :
            (d.name # <<>> /\ d.due_date # <<>> /\ AssignmentListPost(u, d))
                => TagsRegisteredBy(u, IF d.tags = <<>> THEN <<>> ELSE d.tags[1])
       /\ \A a \in RecordIds(assignments), d \in AssignmentBodies :
            (d.tags # <<>> /\ AssignmentResourcePut(a, d))
                => TagsRegisteredBy(GetRow(assignments, a).user_id, d.tags[1])]_vars

\* the first user's second assignment carried " OOP ", "  " and "OOP": OOP is
\* in the table once for each user, and Java, registered before, once
C26_Witness ==
    /\ response.op \in {"create_assignment", "update_assignment"}
    /\ response.status \in {200, 201}
    /\ response.body.tags = <<" OOP ", "  ", "OOP">>
    /\ Cardinality(TagRowsOf(tag_table, 1, "OOP")) = 1
    /\ Cardinality(TagRowsOf(tag_table, 2, "OOP")) = 1
    /\ Cardinality(TagRowsOf(tag_table, 1, "Java")) = 1
    /\ Len(tag_table) = 3

(***************************************************************************)
(* Properties of the creation of a note                                    *)
(***************************************************************************)
\* C21: a request of an existing user to create a note with a content, a
\* subject and a list of tags is answered 201 with the subject and the tag
\* list as they were submitted, whether or not a tag or an assignment was
\* ever created for the user.
C21_NoteCreatedAsSubmitted ==
    [][\A u \in users, d \in FirstNoteBodies :
        (/\ d.content # <<>>
         /\ d.subject # <<>>
         /\ d.tags # <<>>
         /\ UserNoteListPost(u, d))
            => /\ response'.status = 201
               /\ response'.body.subject = d.subject[1]
               /\ response'.body.tags = d.tags[1]]_vars

(***************************************************************************)
(* Properties of the tags on the way from the requests to the plan         *)
(***************************************************************************)
\* the note carries a tag that an assignment of its user, due in the window
\* of the plan, registered
CarriesRegisteredTag(note) ==
    \E i \in DOMAIN tag_table : \E j \in WindowAssignments :
        /\ tag_table[i].user_id = note.user_id
        /\ tag_table[i].name \in TagSet(note)
        /\ tag_table[i].source_assignment_id = assignments[j].id
        /\ assignments[j].user_id = note.user_id

\* C30: a plan generation classifies as priority every note that carries a
\* tag registered by an assignment due within the window of the plan, also
\* when the assignment's tag was submitted with whitespace around it.
C30_RegisteredTagIsPriority ==
    [][frame' # frame =>
        \A i \in DOMAIN notes :
            CarriesRegisteredTag(notes[i]) =>
                \E k \in DOMAIN frame'.priority_notes :
                    frame'.priority_notes[k].id = notes[i].id]_vars

====
